---------------------------- MODULE Spec2Model ----------------------------
(***************************************************************************)
(* Model of the fetch / merge / download engine of civitai_downloader.py   *)
(* and civitai_collection_downloader.py.                                   *)
(*                                                                         *)
(*   SpecFetch     the four cursor-paginated page fetchers                 *)
(*                 (get_images, get_posts, get_collection_images,          *)
(*                 get_collection_posts), one action per page request      *)
(*   SpecFilter    the per-record loop of get_images / get_posts on one   *)
(*                 page of records (ownership and date checks)             *)
(*   SpecMerge     the id-keyed merge of process_user / process_collection *)
(*   SpecDownload  download_image (both implementations): reconciliation   *)
(*                 of same-id files, the AlreadyPresent check and the      *)
(*                 retry loop, called repeatedly on one directory          *)
(*   SpecNames     the url and extension derivation at the head of         *)
(*                 download_image, on strings kept as sequences of        *)
(*                 characters                                             *)
(*   SpecPool      main with its outer pool of units, and the inner pool   *)
(*                 of download_image calls of each unit                    *)
(*   SpecOuter     the same with every thread scheduled fairly             *)
(*   SpecFeed      get_images on a finite collection served newest first   *)
(*   SpecCycle     get_posts / get_collection_images on an endpoint that  *)
(*                 answers by cursor                                       *)
(*   SpecDeleter   civitai_deleter.py: get_images_metadata and the         *)
(*                 deletion loop of process_user_deletion                  *)
(*   SpecCollection  process_collection up to the output directory         *)
(*                                                                         *)
(* Python's None is the string "None" for cursors and owner ids and the    *)
(* date NoDate for timestamps.                                             *)
(***************************************************************************)
EXTENDS Integers, Sequences, FiniteSets, TLC

VARIABLES
    \* ---- page fetchers
    fetcher,        \* which of the four functions runs
    is_username,    \* get_images / get_posts: query by name (TRUE) or by id
    after_date,     \* get_images / get_posts: date lower bound, NoDate = None
    cursor,         \* the local variable cursor
    attempt,        \* index of the retry loop, 0 .. max_retries - 1
    items,          \* the accumulator (images / items / posts in the source)
    fpc,            \* "request" while the while-loop runs, "done" after return
    returned,       \* the returned list, <<>> until the function returns
    pages,          \* page responses parsed so far (bounded by MaxPages)
    lastSent,       \* cursor carried by the last parsed response's request
    lastNext,       \* nextCursor of the last parsed response
    lastBatchLen,   \* number of records of the last parsed response
    page_fails,     \* failed requests of the retry loop of the current page
    lastFail,       \* how the last request failed, "none" once a page is parsed
    failCursor,     \* the cursor that failed request carried
    fwait,          \* seconds slept after that failure
    lastImages,     \* get_images: the records of the last parsed response
    lastDate,       \* get_images / get_posts: timestamp of its last record
    page,           \* SpecFilter: the batch handed to the per-record loop
    feed,           \* SpecFeed / SpecCycle: the endpoint, cursor -> page
    \* ---- civitai_deleter: get_images_metadata / process_user_deletion
    before_date,    \* the date bound, NoDate outside the deleter
    data,           \* the local data: the last response parsed, or NoData
    n5xx,           \* 5xx answers of the retry loop of the current page, 0
                    \* once one of its requests failed in another way
    rounds,         \* times the body of the while-loop ran to its end
    has_dir,        \* downloads/<username> exists
    local,          \* the files of downloads/<username>
    todo,           \* items_to_delete still to be looked at
    xpc,            \* process_user_deletion: "resolve", "scan", "delete",
                    \* then "skipped", "nothing", "nodir" or "finished"
    \* ---- process_collection up to the output directory
    collection_input, \* the command line argument
    lookup,         \* what collection.getById answers
    collection_id,  \* the local collection_id, NoneText for None
    collection_name,\* the local collection_name, NoneName for None
    cpc,            \* "start", "lookup", then "no_id", "not_found" or
                    \* "fetch" (the fetchers are called next)
    \* ---- merge (process_user / process_collection)
    runner,         \* "process_user" or "process_collection"
    images,         \* what the direct-items fetcher returned
    posts,          \* what the container fetcher returned (posts_images)
    final_items,    \* the merged list handed to the download pool
    mpc,            \* "fetched", then "merged", "empty" (nothing found) or
                    \* "raised" (an exception left the function)
    \* ---- download_image
    impl,           \* "user" (civitai_downloader) or "collection"
    platform,       \* "posix" or "nt": decides os.rename onto an existing file
    item,           \* img_data: [id, name, url]
    dir,            \* output_dir: file name -> content, "absent" if no file
    dpc,            \* "idle", "reconcile", "transfer", "returned"
    potential_dupes,\* the part of the glob result still to be looked at
    dl_attempt,     \* index of the download retry loop
    nreq,           \* HTTP requests issued by the current call
    ncanon,         \* of these, requests for original_url
    nfallback,      \* calls of requests.get(url) made as the fallback
    slept,          \* seconds of the last back-off sleep of the call, 0 if none
    only429,        \* every answer the call got so far was an HTTP 429
    result,         \* "True" / "False" once returned, "none" before
    via,            \* "AlreadyPresent", "Success", "Failed", "none"
    call,           \* calls of download_image started on this directory
    dir0,           \* the directory when the current call started
    renames,        \* files renamed by the current call
    checked,        \* what filepath held when the check after reconciliation ran
    prevResult,     \* result of the previous call, "none" if there is none
    prevDir,        \* the directory when the previous call returned
    img_data,       \* SpecNames: the item as [url, name, type, mimeType]
    original_url,   \* SpecNames: the local original_url
    ext,            \* SpecNames: the local ext
    filename,       \* SpecNames: the local filename
    \* ---- main and the two thread pools
    users,          \* main: the unit identifiers given on the command line
    mainpc,         \* main: "start", "waiting" (all units submitted), "finished"
    outer,          \* outer executor: units submitted and not yet started
    unit            \* per identifier: the state of its process_user call

cvars == <<collection_input, lookup, collection_id, collection_name, cpc>>

xvars == <<before_date, data, n5xx, rounds, has_dir, local, todo, xpc>>

fvars == <<fetcher, is_username, after_date, cursor, attempt, items, fpc,
           returned, pages, lastSent, lastNext, lastBatchLen,
           page_fails, lastFail, failCursor, fwait, lastImages, lastDate,
           page, feed, cvars, xvars>>

mvars == <<runner, images, posts, final_items, mpc>>

dvars == <<impl, platform, item, dir, dpc, potential_dupes, dl_attempt, nreq,
           ncanon, nfallback, slept, only429,
           result, via, call, dir0, renames, checked, prevResult, prevDir,
           img_data, original_url, ext, filename>>

pvars == <<users, mainpc, outer, unit>>

vars == <<fvars, mvars, dvars, pvars>>

-----------------------------------------------------------------------------
(* Bounds *)

MaxPages == 2       \* page responses parsed per fetch
MaxId    == 2       \* item ids are 1 .. MaxId
MaxLen   == 2       \* length of each fetched list given to the merge
MaxCalls == 2       \* calls of download_image on one directory
MaxItems == 3       \* merged items of one unit

(* Program constants *)

max_retries == 5    \* page fetchers: attempts per page
max_workers == 2    \* inner pool: ThreadPoolExecutor(max_workers=2)
max_concurrent_users == 2  \* outer pool of main
FetchWaitStep == 5  \* page fetchers: wait_time = (attempt + 1) * 5
PostsExcStep == 2   \* get_posts: time.sleep((attempt + 1) * 2) on an exception
dl_max_retries == 10 \* download_image: attempts per call
NameLimit == 200     \* download_image: if len(filename) > 200
NameKeep == 100      \* download_image: filename[:100]
RateLimitStep == 10  \* download_image: wait_time = (attempt + 1) * 10
NetworkErrorWait == 5 \* download_image: time.sleep(5) on a network error

NoDate == 0         \* a missing createdAt / publishedAt / after_date (None)
NoneCursor == "None"
NoFeed == <<>>       \* no endpoint table: the endpoint answers as it likes
Cursors == {"A", "B"}
Dates == {1, 2}                       \* parsed timestamps, 2 the newer
UserIds == {"None", "me", "other"}    \* embedded userId; "me" is the queried id

-----------------------------------------------------------------------------
(* Records served by the endpoints *)

\* image.getInfinite items
ImageRecords == [createdAt : {NoDate} \cup Dates, userId : UserIds]

\* images embedded in a post: only createdAt is read by the fetchers
PostImages == [createdAt : {NoDate} \cup Dates]

\* post.getInfinite items, each with at most one embedded image
PostIds == {"p1"}
PostRecords == [id : PostIds,
                createdAt : {NoDate} \cup Dates,
                publishedAt : {NoDate} \cup Dates,
                userId : UserIds,
                images : {<<>>} \cup {<<i>> : i \in PostImages}]

BatchesOf(S) == {<<>>} \cup {<<r>> : r \in S}

Fetchers == {"get_images", "get_posts", "get_collection_images",
             "get_collection_posts"}

Ids == 1 .. MaxId

\* A file name is <stem>_<id>.<ext>; the pattern *_<id>.* looks at the id.
\* "new" is the stem the filename policy gives the item now, the others are
\* names an earlier naming scheme left behind.
Stems == {"new", "old1", "old2"}
FileNames == [stem : Stems, id : Ids]

\* What a file holds: nothing ("empty"), the bytes some earlier run left under
\* that name ("was_<stem>"), the whole remote body, or a cut-off part of it.
Contents == {"absent", "empty", "was_new", "was_old1", "was_old2", "remote",
             "partial"}

EarlierBytes(n) == CASE n.stem = "new"  -> "was_new"
                     [] n.stem = "old1" -> "was_old1"
                     [] n.stem = "old2" -> "was_old2"

\* img_data.url: missing, an opaque token, a URL with a /width=N/ segment,
\* any other URL
UrlKinds == {"none", "uuid", "width", "plain"}


\* Unit identifiers as typed by the user: a user name, the profile URL of
\* the same user, another user name (for the collection downloader: an id,
\* the URL of the same collection, another id)
Identifiers == {"alice", "url_alice", "bob"}

\* a unit that is not part of the run
NoUnit == [upc |-> "none", fetched |-> FALSE, container |-> FALSE,
           inflight |-> 0, made_dir |-> FALSE,
           n |-> 0, todo |-> <<>>, queue |-> <<>>,
           running |-> {}, started |-> <<>>, completed |-> <<>>,
           early |-> {}, nearly |-> 0, late |-> <<>>, counted |-> <<>>,
           success_count |-> 0, fail_count |-> 0]

\* a string is a sequence of characters; None and '' are both <<>>
NoString == <<>>

NoItem == [id |-> NoString, url |-> NoString, name |-> NoString,
           username |-> NoString, type |-> "None", mimeType |-> "None"]

-----------------------------------------------------------------------------
(* The parts a specification does not run stay in these states *)

NamesIdle ==
    /\ img_data = NoItem
    /\ original_url = NoString
    /\ ext = NoString
    /\ filename = NoString

PoolIdle ==
    /\ users = <<>>
    /\ mainpc = "off"
    /\ outer = <<>>
    /\ unit = [u \in Identifiers |-> NoUnit]

NoData == [batch |-> <<>>, next |-> "unbound"]   \* data not assigned yet

CollectionIdle ==
    /\ collection_input = <<>>
    /\ lookup = [kind |-> "none", name |-> <<>>]
    /\ collection_id = <<>>
    /\ collection_name = <<>>
    /\ cpc = "off"

DeleterIdle ==
    /\ before_date = NoDate
    /\ data = NoData
    /\ n5xx = 0
    /\ rounds = 0
    /\ has_dir = FALSE
    /\ local = {}
    /\ todo = <<>>
    /\ xpc = "off"

PagesIdle ==
    /\ fetcher = "none"
    /\ is_username = FALSE
    /\ after_date = NoDate
    /\ cursor = NoneCursor
    /\ attempt = 0
    /\ items = <<>>
    /\ fpc = "done"
    /\ returned = <<>>
    /\ pages = 0
    /\ lastSent = NoneCursor
    /\ lastNext = NoneCursor
    /\ lastBatchLen = 0
    /\ page_fails = 0
    /\ lastFail = "none"
    /\ failCursor = NoneCursor
    /\ fwait = 0
    /\ lastImages = <<>>
    /\ lastDate = NoDate
    /\ feed = NoFeed
    /\ page = <<>>

FetchIdle ==
    /\ PagesIdle
    /\ DeleterIdle
    /\ CollectionIdle

MergeIdle ==
    /\ runner = "none"
    /\ images = <<>>
    /\ posts = <<>>
    /\ final_items = <<>>
    /\ mpc = "idle"

DownloadIdle ==
    /\ impl = "none"
    /\ platform = "none"
    /\ item = [id |-> 1, name |-> "new", url |-> "none"]
    /\ dir = [n \in FileNames |-> "absent"]
    /\ dpc = "off"
    /\ potential_dupes = <<>>
    /\ dl_attempt = 0
    /\ nreq = 0
    /\ ncanon = 0
    /\ nfallback = 0
    /\ slept = 0
    /\ only429 = TRUE
    /\ result = "none"
    /\ via = "none"
    /\ call = 0
    /\ dir0 = [n \in FileNames |-> "absent"]
    /\ renames = 0
    /\ checked = "none"
    /\ prevResult = "none"
    /\ prevDir = [n \in FileNames |-> "absent"]
    /\ NamesIdle

-----------------------------------------------------------------------------
(* Page fetchers: helpers *)

\* Python's  a or b  on two optional dates
DateOr(a, b) == IF a # NoDate THEN a ELSE b

\* mutant of OwnershipDrop: a record without userId is dropped as well
OwnershipDropUnknown(rec) == ~is_username /\ rec.userId # "me"

\* the ownership check: queried by id, userId present and different
OwnershipDrop(rec) ==
    /\ ~is_username
    /\ rec.userId # "None"
    /\ rec.userId # "me"

\* mutant of TooOld: a date on the bound counts as older
TooOldInclusive(d) == after_date # NoDate /\ d # NoDate /\ d <= after_date

\* the date check: a bound is given, the date is there and is older
TooOld(d) == after_date # NoDate /\ d # NoDate /\ d < after_date

\* get_images: the per-item loop building filtered_batch_ownership
RECURSIVE FilterImages(_)
FilterImages(batch) ==
    IF batch = <<>> THEN <<>>
    ELSE LET img == Head(batch)
             rest == FilterImages(Tail(batch))
         IN  IF OwnershipDrop(img) \/ TooOld(img.createdAt)
             THEN rest
             ELSE <<img>> \o rest

\* the image of a post with postId / postDate attached and createdAt inherited
AttachPost(img, post) ==
    LET postDate == DateOr(post.createdAt, post.publishedAt)
    IN  [createdAt |-> IF img.createdAt = NoDate THEN postDate
                       ELSE img.createdAt,
         postId    |-> post.id,
         postDate  |-> postDate]

RECURSIVE AttachAll(_, _)
AttachAll(imgs, post) ==
    IF imgs = <<>> THEN <<>>
    ELSE <<AttachPost(Head(imgs), post)>> \o AttachAll(Tail(imgs), post)

\* get_posts: the per-post loop building extracted_items
RECURSIVE ExtractUserPosts(_)
ExtractUserPosts(batch) ==
    IF batch = <<>> THEN <<>>
    ELSE LET post == Head(batch)
             rest == ExtractUserPosts(Tail(batch))
         IN  IF \/ OwnershipDrop(post)
                \/ TooOld(DateOr(post.createdAt, post.publishedAt))
             THEN rest
             ELSE AttachAll(post.images, post) \o rest

\* get_collection_posts: the per-post loop appending to posts
RECURSIVE ExtractCollectionPosts(_)
ExtractCollectionPosts(batch) ==
    IF batch = <<>> THEN <<>>
    ELSE AttachAll(Head(batch).images, Head(batch))
         \o ExtractCollectionPosts(Tail(batch))

\* mutant of DateStop: a last record on the bound ends the loop as well
DateStopInclusive(batch, last_date) ==
    /\ after_date # NoDate
    /\ batch # <<>>
    /\ last_date # NoDate
    /\ last_date <= after_date

\* mutant of DateStop: the check dropped
DateStopNever(batch, last_date) == FALSE

\* the date optimisation check on the last record of the page
DateStop(batch, last_date) ==
    /\ after_date # NoDate
    /\ batch # <<>>
    /\ last_date # NoDate
    /\ last_date < after_date

\* mutant of CycleGuard: the comparison dropped
CycleGuardOff(next_cursor, cur) == FALSE

\* the cycle guard of get_posts and get_collection_images
CycleGuard(next_cursor, cur) == next_cursor = cur

\* list.sort(key=createdAt, reverse=True): stable, newest first
RECURSIVE InsertDesc(_, _)
InsertDesc(x, s) ==
    IF s = <<>> THEN <<x>>
    ELSE IF Head(s).createdAt >= x.createdAt
         THEN <<Head(s)>> \o InsertDesc(x, Tail(s))
         ELSE <<x>> \o s

RECURSIVE SortDescInto(_, _)
SortDescInto(sorted, rest) ==
    IF rest = <<>> THEN sorted
    ELSE SortDescInto(InsertDesc(Head(rest), sorted), Tail(rest))

SortDesc(s) == SortDescInto(<<>>, s)

-----------------------------------------------------------------------------
(* Page fetchers: state changes shared by the actions *)

\* the function returns ret
Return(ret) ==
    /\ fpc' = "done"
    /\ returned' = ret

\* the while-loop goes round with a fresh retry loop
NextPage ==
    /\ fpc' = "request"
    /\ attempt' = 0
    /\ returned' = returned

\* a response was parsed: remember what was sent and what came back
Parsed(batch, next_cursor) ==
    /\ pages' = pages + 1
    /\ lastSent' = cursor
    /\ lastNext' = next_cursor
    /\ lastBatchLen' = Len(batch)
    /\ page_fails' = 0
    /\ lastFail' = "none"
    /\ failCursor' = NoneCursor
    /\ fwait' = 0

\* of a parsed response, remember the records and the last timestamp
Seen(recs, d) ==
    /\ lastImages' = recs
    /\ lastDate' = d

\* how a page request can fail: a 5xx status, a RequestException whose text
\* holds 500 / 502 / 503 / 504, any other RequestException (a timeout, a
\* connection error, the HTTPError of raise_for_status)
FailKinds == {"5xx", "exc5xx", "exc"}

\* mutant of FetchWait: the shorter step of get_posts' handler everywhere
FetchWaitShort(f, kind, a) == (a + 1) * PostsExcStep

\* the sleep after the failed attempt a of fetcher f
FetchWait(f, kind, a) ==
    CASE kind = "5xx"      -> (a + 1) * FetchWaitStep
      [] f = "get_posts"   -> (a + 1) * PostsExcStep
      [] kind = "exc5xx" /\ a < max_retries - 1
                           -> (a + 1) * FetchWaitStep
      [] OTHER             -> 0

\* an attempt failed: the for-loop goes on with the same url, and its
\* else-branch leaves the while-loop after max_retries attempts
FailedAttempt(kind, ret) ==
    /\ UNCHANGED <<cursor, items, pages, lastSent, lastNext, lastBatchLen,
                   lastImages, lastDate>>
    /\ page_fails' = page_fails + 1
    /\ lastFail' = kind
    /\ failCursor' = cursor
    /\ fwait' = FetchWait(fetcher, kind, attempt)
    /\ IF attempt + 1 < max_retries
       THEN /\ attempt' = attempt + 1
            /\ UNCHANGED <<fpc, returned>>
       ELSE /\ attempt' = attempt
            /\ Return(ret)

Requesting(f) ==
    /\ fetcher = f
    /\ fpc = "request"
    /\ pages < MaxPages

-----------------------------------------------------------------------------
(* get_images *)

GetImagesFail ==
    /\ Requesting("get_images")
    /\ \E kind \in FailKinds : FailedAttempt(kind, SortDesc(items))
    /\ UNCHANGED <<fetcher, is_username, after_date, page, feed, cvars, xvars>>
    /\ UNCHANGED <<mvars, dvars, pvars>>

\* one round of the while-loop on a parsed response
ImagesPage(batch, next_cursor) ==
    LET acc == items \o FilterImages(batch)
    IN  /\ Parsed(batch, next_cursor)
        /\ Seen(batch, IF batch = <<>> THEN NoDate
                       ELSE batch[Len(batch)].createdAt)
        /\ items' = acc
        /\ cursor' = next_cursor
        /\ IF next_cursor = NoneCursor
           THEN Return(SortDesc(acc)) /\ attempt' = attempt
           ELSE IF DateStop(batch, batch[Len(batch)].createdAt)
                THEN Return(SortDesc(acc)) /\ attempt' = attempt
                ELSE NextPage

GetImagesPage ==
    /\ Requesting("get_images")
    /\ \E batch \in BatchesOf(ImageRecords), next_cursor \in {NoneCursor} \cup Cursors :
         ImagesPage(batch, next_cursor)
    /\ UNCHANGED <<fetcher, is_username, after_date, page, feed, cvars, xvars>>
    /\ UNCHANGED <<mvars, dvars, pvars>>

(* get_posts *)

GetPostsFail ==
    /\ Requesting("get_posts")
    /\ \E kind \in FailKinds : FailedAttempt(kind, items)
    /\ UNCHANGED <<fetcher, is_username, after_date, page, feed, cvars, xvars>>
    /\ UNCHANGED <<mvars, dvars, pvars>>

\* one round of the while-loop on a parsed response
PostsPage(batch, next_cursor) ==
    /\ Parsed(batch, next_cursor)
    /\ Seen(<<>>, IF batch = <<>> THEN NoDate
                  ELSE DateOr(batch[Len(batch)].createdAt,
                              batch[Len(batch)].publishedAt))
    /\ IF batch = <<>>
       THEN /\ Return(items)
            /\ UNCHANGED <<items, cursor, attempt>>
       ELSE LET acc == items \o ExtractUserPosts(batch)
                last == batch[Len(batch)]
            IN  /\ items' = acc
                /\ IF next_cursor = NoneCursor \/ CycleGuard(next_cursor, cursor)
                   THEN /\ Return(acc)
                        /\ UNCHANGED <<cursor, attempt>>
                   ELSE /\ cursor' = next_cursor
                        /\ IF DateStop(batch, DateOr(last.createdAt, last.publishedAt))
                           THEN Return(acc) /\ attempt' = attempt
                           ELSE NextPage

GetPostsPage ==
    /\ Requesting("get_posts")
    /\ \E batch \in BatchesOf(PostRecords), next_cursor \in {NoneCursor} \cup Cursors :
         PostsPage(batch, next_cursor)
    /\ UNCHANGED <<fetcher, is_username, after_date, page, feed, cvars, xvars>>
    /\ UNCHANGED <<mvars, dvars, pvars>>

(* get_collection_images *)

GetCollectionImagesFail ==
    /\ Requesting("get_collection_images")
    /\ \E kind \in FailKinds : FailedAttempt(kind, items)
    /\ UNCHANGED <<fetcher, is_username, after_date, page, feed, cvars, xvars>>
    /\ UNCHANGED <<mvars, dvars, pvars>>

\* one round of the while-loop on a parsed response
CollectionImagesPage(batch, next_cursor) ==
    /\ Parsed(batch, next_cursor)
    /\ Seen(<<>>, NoDate)
    /\ IF batch = <<>>
       THEN /\ Return(items)
            /\ UNCHANGED <<items, cursor, attempt>>
       ELSE LET acc == items \o batch
            IN  /\ items' = acc
                /\ IF next_cursor = NoneCursor \/ CycleGuard(next_cursor, cursor)
                   THEN /\ Return(acc)
                        /\ UNCHANGED <<cursor, attempt>>
                   ELSE /\ cursor' = next_cursor
                        /\ NextPage

GetCollectionImagesPage ==
    /\ Requesting("get_collection_images")
    /\ \E batch \in BatchesOf(ImageRecords), next_cursor \in {NoneCursor} \cup Cursors :
         CollectionImagesPage(batch, next_cursor)
    /\ UNCHANGED <<fetcher, is_username, after_date, page, feed, cvars, xvars>>
    /\ UNCHANGED <<mvars, dvars, pvars>>

(* get_collection_posts *)

\* any exception (raise_for_status included) leaves the while-loop at once
GetCollectionPostsFail ==
    /\ Requesting("get_collection_posts")
    /\ Return(items)
    /\ page_fails' = page_fails + 1
    /\ lastFail' = "exc"
    /\ failCursor' = cursor
    /\ fwait' = 0
    /\ UNCHANGED <<fetcher, is_username, after_date, page, feed, cvars, xvars,
                   cursor, attempt, items,
                   pages, lastSent, lastNext, lastBatchLen,
                   lastImages, lastDate>>
    /\ UNCHANGED <<mvars, dvars, pvars>>

GetCollectionPostsPage ==
    /\ Requesting("get_collection_posts")
    /\ \E batch \in BatchesOf(PostRecords), next_cursor \in {NoneCursor} \cup Cursors :
         /\ Parsed(batch, next_cursor)
         /\ Seen(<<>>, NoDate)
         /\ IF batch = <<>>
            THEN /\ Return(items)
                 /\ UNCHANGED <<items, cursor, attempt>>
            ELSE LET acc == items \o ExtractCollectionPosts(batch)
                 IN  /\ items' = acc
                     /\ cursor' = next_cursor
                     /\ IF next_cursor = NoneCursor
                        THEN Return(acc) /\ attempt' = attempt
                        ELSE NextPage
    /\ UNCHANGED <<fetcher, is_username, after_date, page, feed, cvars, xvars>>
    /\ UNCHANGED <<mvars, dvars, pvars>>

-----------------------------------------------------------------------------
(* SpecFetch *)

InitFetch ==
    /\ fetcher \in Fetchers
    /\ is_username \in (IF fetcher \in {"get_images", "get_posts"}
                        THEN BOOLEAN ELSE {FALSE})
    /\ after_date \in (IF fetcher \in {"get_images", "get_posts"}
                       THEN {NoDate} \cup Dates ELSE {NoDate})
    /\ cursor = NoneCursor
    /\ attempt = 0
    /\ items = <<>>
    /\ fpc = "request"
    /\ returned = <<>>
    /\ pages = 0
    /\ lastSent = NoneCursor
    /\ lastNext = NoneCursor
    /\ lastBatchLen = 0
    /\ page_fails = 0
    /\ lastFail = "none"
    /\ failCursor = NoneCursor
    /\ fwait = 0
    /\ lastImages = <<>>
    /\ lastDate = NoDate
    /\ feed = NoFeed
    /\ DeleterIdle
    /\ CollectionIdle
    /\ page = <<>>
    /\ MergeIdle
    /\ DownloadIdle
    /\ PoolIdle

NextFetch ==
    \/ GetImagesFail
    \/ GetImagesPage
    \/ GetPostsFail
    \/ GetPostsPage
    \/ GetCollectionImagesFail
    \/ GetCollectionImagesPage
    \/ GetCollectionPostsFail
    \/ GetCollectionPostsPage

SpecFetch == InitFetch /\ [][NextFetch]_vars

-----------------------------------------------------------------------------
(* SpecFilter: the per-record loop applied to one page of up to two records *)

PagesOf(S) == BatchesOf(S) \cup {<<r1, r2>> : r1 \in S, r2 \in S}

\* the loop over batch: filtered_batch_ownership / final_batch of get_images,
\* extracted_items of get_posts
FilterPage ==
    /\ fpc = "filter"
    /\ items' = items \o (IF fetcher = "get_images" THEN FilterImages(page)
                          ELSE ExtractUserPosts(page))
    /\ fpc' = "filtered"
    /\ UNCHANGED <<fetcher, is_username, after_date, page, feed, cvars, xvars,
                   cursor, attempt,
                   returned, pages, lastSent, lastNext, lastBatchLen,
                   page_fails, lastFail, failCursor, fwait, lastImages,
                   lastDate>>
    /\ UNCHANGED <<mvars, dvars, pvars>>

InitFilter ==
    /\ fetcher \in {"get_images", "get_posts"}
    /\ is_username \in BOOLEAN
    /\ after_date \in {NoDate} \cup Dates
    /\ page \in (IF fetcher = "get_images" THEN PagesOf(ImageRecords)
                  ELSE PagesOf(PostRecords))
    /\ cursor = NoneCursor
    /\ attempt = 0
    /\ items = <<>>
    /\ fpc = "filter"
    /\ returned = <<>>
    /\ pages = 0
    /\ lastSent = NoneCursor
    /\ lastNext = NoneCursor
    /\ lastBatchLen = 0
    /\ page_fails = 0
    /\ lastFail = "none"
    /\ failCursor = NoneCursor
    /\ fwait = 0
    /\ lastImages = <<>>
    /\ lastDate = NoDate
    /\ feed = NoFeed
    /\ DeleterIdle
    /\ CollectionIdle
    /\ MergeIdle
    /\ DownloadIdle
    /\ PoolIdle

NextFilter == FilterPage

SpecFilter == InitFilter /\ [][NextFilter]_vars

-----------------------------------------------------------------------------
(* SpecFeed, SpecCycle: the fetchers against an endpoint that answers by     *)
(* cursor: the same cursor always gets the same page and the same nextCursor *)
(* and no request fails                                                      *)

FeedKeys == {NoneCursor} \cup Cursors

\* a call that has parsed this many pages has requested every cursor there is
FeedRounds == Cardinality(FeedKeys)

\* the cursors of a finite collection, in the order its pages hand them out
CursorOrder == <<"A", "B">>

FeedRequesting(f) ==
    /\ fetcher = f
    /\ fpc = "request"
    /\ feed # NoFeed
    /\ pages < FeedRounds

FeedImagesPage ==
    /\ FeedRequesting("get_images")
    /\ ImagesPage(feed[cursor].batch, feed[cursor].next)
    /\ UNCHANGED <<fetcher, is_username, after_date, page, feed, cvars, xvars>>
    /\ UNCHANGED <<mvars, dvars, pvars>>

FeedPostsPage ==
    /\ FeedRequesting("get_posts")
    /\ PostsPage(feed[cursor].batch, feed[cursor].next)
    /\ UNCHANGED <<fetcher, is_username, after_date, page, feed, cvars, xvars>>
    /\ UNCHANGED <<mvars, dvars, pvars>>

FeedCollectionImagesPage ==
    /\ FeedRequesting("get_collection_images")
    /\ CollectionImagesPage(feed[cursor].batch, feed[cursor].next)
    /\ UNCHANGED <<fetcher, is_username, after_date, page, feed, cvars, xvars>>
    /\ UNCHANGED <<mvars, dvars, pvars>>

\* the records of a list of pages, in the order they are served
RECURSIVE Flatten(_)
Flatten(ps) == IF ps = <<>> THEN <<>> ELSE Head(ps) \o Flatten(Tail(ps))

NonIncreasing(s) ==
    \A i \in 1 .. Len(s) - 1 : s[i].createdAt >= s[i + 1].createdAt

\* image records with a parseable createdAt
DatedImages == {r \in ImageRecords : r.createdAt # NoDate}

\* finite collections served newest first, as one to three pages
OrderedPages ==
    {ps \in UNION {[1 .. n -> PagesOf(DatedImages)] : n \in 1 .. FeedRounds} :
        NonIncreasing(Flatten(ps))}

\* the endpoint serving the pages ps: page 1 for no cursor, page k + 1 for
\* the cursor page k handed out, no nextCursor on the last page
ChainFeed(ps) ==
    [c \in FeedKeys |->
        LET k == IF c = NoneCursor THEN 1
                 ELSE 1 + CHOOSE i \in 1 .. Len(CursorOrder) : CursorOrder[i] = c
        IN  IF k > Len(ps) THEN [batch |-> <<>>, next |-> NoneCursor]
            ELSE [batch |-> ps[k],
                  next  |-> IF k < Len(ps) THEN CursorOrder[k] ELSE NoneCursor]]

FeedStart ==
    /\ cursor = NoneCursor
    /\ attempt = 0
    /\ items = <<>>
    /\ fpc = "request"
    /\ returned = <<>>
    /\ pages = 0
    /\ lastSent = NoneCursor
    /\ lastNext = NoneCursor
    /\ lastBatchLen = 0
    /\ page_fails = 0
    /\ lastFail = "none"
    /\ failCursor = NoneCursor
    /\ fwait = 0
    /\ lastImages = <<>>
    /\ lastDate = NoDate
    /\ page = <<>>
    /\ DeleterIdle
    /\ CollectionIdle
    /\ MergeIdle
    /\ DownloadIdle
    /\ PoolIdle

InitFeed ==
    /\ fetcher = "get_images"
    /\ is_username \in BOOLEAN
    /\ after_date \in {NoDate} \cup Dates
    /\ feed \in {ChainFeed(ps) : ps \in OrderedPages}
    /\ FeedStart

NextFeed == FeedImagesPage

SpecFeed == InitFeed /\ [][NextFeed]_vars

\* non-empty pages of one record
CyclePosts == {r \in PostRecords : r.userId = "me" /\ r.publishedAt = NoDate
                                   /\ r.images # <<>>
                                   /\ r.images[1].createdAt = r.createdAt}
CycleImages == {r \in ImageRecords : r.userId = "me"}

\* every endpoint that answers each cursor with one record and any cursor
CycleFeeds(S) == [FeedKeys -> [batch : {<<r>> : r \in S}, next : FeedKeys]]

InitCycle ==
    /\ fetcher \in {"get_posts", "get_collection_images"}
    /\ is_username \in (IF fetcher = "get_posts" THEN BOOLEAN ELSE {FALSE})
    /\ after_date \in (IF fetcher = "get_posts" THEN {NoDate} \cup Dates
                       ELSE {NoDate})
    /\ feed \in (IF fetcher = "get_posts" THEN CycleFeeds(CyclePosts)
                 ELSE CycleFeeds(CycleImages))
    /\ FeedStart

NextCycle ==
    \/ FeedPostsPage
    \/ FeedCollectionImagesPage

SpecCycle == InitCycle /\ [][NextCycle]_vars




-----------------------------------------------------------------------------
(* Merge: the dict all_items, kept as the list of its values in insertion   *)
(* order (a Python dict keeps a key's first position when it is rewritten)  *)

\* items as returned by get_images / get_collection_images
DirectItems == [id : Ids, createdAt : Dates]

\* items as returned by get_posts / get_collection_posts: they carry the
\* postDate attached by the fetcher (here the image inherited createdAt)
PostItems == {[id |-> i, createdAt |-> d, postDate |-> d] : i \in Ids, d \in Dates}

\* malformed records the fetchers pass on: an item of the direct feed that
\* has no id (NoId), and the image of a post that has neither createdAt nor
\* publishedAt, which the fetcher leaves with createdAt = None
NoId == 0

DirectMalformed == {[id |-> NoId, createdAt |-> 1]}

PostMalformed == {[id |-> 1, createdAt |-> NoDate, postDate |-> NoDate]}

SeqsUpTo(S, n) == UNION {[1 .. k -> S] : k \in 0 .. n}

\* img['id'] on an item without id: KeyError
KeyErrorIn(list) == \E i \in 1 .. Len(list) : list[i].id = NoId

\* sort(key=lambda x: x.get('createdAt', '')): a key that is None cannot be
\* compared with any other key (TypeError); a single item is not compared
SortRaises(list) ==
    Len(list) > 1 /\ \E i \in 1 .. Len(list) : list[i].createdAt = NoDate

HasKey(d, k) == \E i \in 1 .. Len(d) : d[i].id = k

\* all_items[img['id']] = img
DictSet(d, img) ==
    IF HasKey(d, img.id)
    THEN [i \in 1 .. Len(d) |-> IF d[i].id = img.id THEN img ELSE d[i]]
    ELSE Append(d, img)

\* {img['id']: img for img in images}
RECURSIVE DictFromList(_, _)
DictFromList(d, list) ==
    IF list = <<>> THEN d
    ELSE DictFromList(DictSet(d, Head(list)), Tail(list))

\* mutants of MergePost: the membership test dropped
MergePostAppend(d, post_item) == Append(d, post_item)

MergePostOverwrite(d, post_item) == DictSet(d, post_item)

\* the body of the loop over posts
MergePost(d, post_item) ==
    IF ~HasKey(d, post_item.id) THEN DictSet(d, post_item) ELSE d

RECURSIVE MergePosts(_, _)
MergePosts(d, list) ==
    IF list = <<>> THEN d
    ELSE MergePosts(MergePost(d, Head(list)), Tail(list))

\* list(all_items.values())
MergedItems(imgs, psts) == MergePosts(DictFromList(<<>>, imgs), psts)

\* process_user up to the download pool
MergeUser ==
    /\ runner = "process_user"
    /\ mpc = "fetched"
    /\ LET merged == MergedItems(images, posts)
       IN  IF KeyErrorIn(images) \/ KeyErrorIn(posts)
           THEN /\ mpc' = "raised"
                /\ final_items' = <<>>
           ELSE IF merged = <<>>
           THEN /\ mpc' = "empty"
                /\ final_items' = <<>>
           ELSE IF SortRaises(merged)
           THEN /\ mpc' = "raised"
                /\ final_items' = <<>>
           ELSE /\ mpc' = "merged"
                /\ final_items' = SortDesc(merged)
    /\ UNCHANGED <<runner, images, posts>>
    /\ UNCHANGED <<fvars, dvars, pvars>>

\* process_collection up to the download pool
MergeCollection ==
    /\ runner = "process_collection"
    /\ mpc = "fetched"
    /\ LET merged == MergedItems(images, posts)
       IN  IF KeyErrorIn(images) \/ KeyErrorIn(posts)
           THEN /\ mpc' = "raised"
                /\ final_items' = <<>>
           ELSE IF merged = <<>>
           THEN /\ mpc' = "empty"
                /\ final_items' = <<>>
           ELSE /\ mpc' = "merged"
                /\ final_items' = merged
    /\ UNCHANGED <<runner, images, posts>>
    /\ UNCHANGED <<fvars, dvars, pvars>>

\* get_images sorts what it returns, get_collection_images does not
InitMerge ==
    /\ FetchIdle
    /\ DownloadIdle
    /\ PoolIdle
    /\ runner \in {"process_user", "process_collection"}
    /\ images \in {s \in SeqsUpTo(DirectItems \cup DirectMalformed, MaxLen) :
                     runner = "process_user" => SortDesc(s) = s}
    /\ posts \in SeqsUpTo(PostItems \cup PostMalformed, MaxLen)
    /\ final_items = <<>>
    /\ mpc = "fetched"

NextMerge ==
    \/ MergeUser
    \/ MergeCollection

SpecMerge == InitMerge /\ [][NextMerge]_vars


-----------------------------------------------------------------------------
(* download_image: the file system *)

\* os.path.exists(p)
Exists(d, n) == d[n] # "absent"

\* mutant of ValidFile: the size test dropped
ValidFileNoSize(d, n) == d[n] # "absent"

\* os.path.exists(p) and os.path.getsize(p) > 0
ValidFile(d, n) == d[n] \notin {"absent", "empty"}

\* mutant of RemoveFile: nothing is deleted
RemoveFileNot(d, n) == d

\* os.remove(p)
RemoveFile(d, n) == [d EXCEPT ![n] = "absent"]

\* mutant of RenameFile: the bytes are copied and the old name is kept
RenameFileCopy(d, src, dst) == [d EXCEPT ![dst] = d[src]]

\* os.rename(src, dst).  On POSIX an existing dst is replaced; on Windows
\* (os.name = "nt") os.rename raises FileExistsError when dst exists, which
\* the caller catches as OSError: nothing is renamed.
RenameFile(d, src, dst) ==
    IF platform = "nt" /\ Exists(d, dst)
    THEN d
    ELSE [d EXCEPT ![dst] = d[src], ![src] = "absent"]

\* glob.glob(output_dir/*_<id>.*): the existing files whose name embeds id
GlobSet(d, id) == {n \in FileNames : n.id = id /\ Exists(d, n)}

\* the orders in which glob may list a set of files
Orders(S) == {s \in [1 .. Cardinality(S) -> S] :
                 \A i, j \in 1 .. Cardinality(S) : i # j => s[i] # s[j]}

\* filepath: the filename policy keeps the item's name and id
Filepath(it) == [stem |-> it.name, id |-> it.id]

-----------------------------------------------------------------------------
(* download_image: the steps of one call *)

DReturn(res, how) ==
    /\ dpc' = "returned"
    /\ result' = res
    /\ via' = how

\* entry: no url -> False; otherwise the names are computed and the glob taken
StartDownload ==
    /\ dpc \in {"idle", "returned"}
    /\ call < MaxCalls
    /\ call' = call + 1
    /\ prevResult' = result
    /\ prevDir' = dir
    /\ dir0' = dir
    /\ nreq' = 0
    /\ ncanon' = 0
    /\ nfallback' = 0
    /\ slept' = 0
    /\ only429' = TRUE
    /\ dl_attempt' = 0
    /\ renames' = 0
    /\ checked' = "none"
    /\ IF item.url = "none"
       THEN /\ DReturn("False", "Failed")
            /\ potential_dupes' = <<>>
       ELSE /\ dpc' = "reconcile"
            /\ result' = "none"
            /\ via' = "none"
            /\ potential_dupes' \in Orders(GlobSet(dir, item.id))
    /\ UNCHANGED <<img_data, original_url, ext, filename>>
    /\ UNCHANGED <<impl, platform, item, dir>>
    /\ UNCHANGED <<fvars, mvars, pvars>>

\* one round of  for dupe in potential_dupes
ReconcileStep ==
    /\ dpc = "reconcile"
    /\ potential_dupes # <<>>
    /\ LET dupe == Head(potential_dupes)
           filepath == Filepath(item)
       IN  IF dupe = filepath
           THEN UNCHANGED <<dir, renames>>
           ELSE IF ValidFile(dir, filepath)
                THEN /\ dir' = RemoveFile(dir, dupe)
                     /\ renames' = renames
                ELSE IF ValidFile(dir, dupe)
                     THEN /\ dir' = RenameFile(dir, dupe, filepath)
                          /\ renames' = IF dir' # dir THEN renames + 1 ELSE renames
                     ELSE UNCHANGED <<dir, renames>>
    /\ potential_dupes' = Tail(potential_dupes)
    /\ UNCHANGED <<img_data, original_url, ext, filename>>
    /\ UNCHANGED <<impl, platform, item, dpc, dl_attempt, nreq, ncanon,
                   nfallback, slept, only429, result, via,
                   call, dir0, checked, prevResult, prevDir>>
    /\ UNCHANGED <<fvars, mvars, pvars>>

\* the check after the loop: an existing non-empty filepath is a success
CheckExisting ==
    /\ dpc = "reconcile"
    /\ potential_dupes = <<>>
    /\ LET filepath == Filepath(item)
       IN  IF Exists(dir, filepath) /\ ValidFile(dir, filepath)
           THEN /\ checked' = dir[filepath]
                /\ DReturn("True", "AlreadyPresent")
           ELSE /\ checked' = dir[filepath]
                /\ dpc' = "transfer"
                /\ UNCHANGED <<result, via>>
    /\ UNCHANGED <<img_data, original_url, ext, filename>>
    /\ UNCHANGED <<impl, platform, item, dir, potential_dupes, dl_attempt, nreq,
                   ncanon, nfallback, slept, only429,
                   call, dir0, renames, prevResult, prevDir>>
    /\ UNCHANGED <<fvars, mvars, pvars>>

-----------------------------------------------------------------------------
(* download_image: the transfer *)

\* what requests.get gives: an exception whose text holds "429", another
\* RequestException, status 429, status 200, another error status
Responses == {"exc429", "exc", "429", "200", "err"}

\* the body of a 200: all of it, none of it, a RequestException raised by
\* iter_content before / after the first chunk was written, or an OSError
\* raised by open(filepath, 'wb') (nothing is written)
Bodies == {"full", "empty", "cut0", "cut1", "oserr"}

\* what one attempt can meet: the answer to the first request, the answer to
\* the fallback request when one is made, and the body when one is written
AttemptOutcomes(fallback) ==
    LET Written(r1, r2) == {[r1 |-> r1, r2 |-> r2, body |-> b] : b \in Bodies}
        Plain(R1, R2)   == {[r1 |-> a, r2 |-> b, body |-> "-"] : a \in R1, b \in R2}
    IN  IF fallback
        THEN Plain(Responses \ {"200", "err"}, {"-"})
             \cup Written("200", "-")
             \cup Plain({"err"}, Responses \ {"200"})
             \cup Written("err", "200")
        ELSE Plain(Responses \ {"200"}, {"-"})
             \cup Written("200", "-")

\* original_url: built from the token, rewritten to original=true, or url
OriginalUrl(it) == CASE it.url = "uuid"  -> "built"
                     [] it.url = "width" -> "rewritten"
                     [] OTHER            -> it.url

\* url.startswith('http')
StartsWithHttp(it) == it.url \in {"width", "plain"}

\* open(filepath, 'wb') and the chunk loop
WriteBody(d, n, body) ==
    [d EXCEPT ![n] = CASE body = "full"  -> "remote"
                       [] body = "cut1"  -> "partial"
                       [] OTHER          -> "empty"]

\* mutant of RateLimitWait: the same wait after every attempt
RateLimitWaitFlat(a) == RateLimitStep

\* wait_time = (attempt + 1) * 10
RateLimitWait(a) == (a + 1) * RateLimitStep

\* the back-off sleep that ends an attempt.  how is "429" (status), "exc429"
\* (RequestException with 429 in its text), "exc" (any other
\* RequestException), "excurl" (a RequestException whose text quotes the URL
\* or the token, HTTPError and MissingSchema: the test  "429" in str(e)
\* then depends on the digits of the URL); anything else does not sleep
Sleeps(how, a) ==
    CASE how \in {"429", "exc429"} -> {RateLimitWait(a)}
      [] how = "exc"               -> {NetworkErrorWait}
      [] how = "excurl"            -> {NetworkErrorWait, RateLimitWait(a)}
      [] OTHER                     -> {0}

\* mutant of OuterExcept: the handler lets the exception through
OuterExceptRaise == "raised"

\* except Exception as e: ... return False
OuterExcept == "False"

\* the for-loop goes on; after dl_max_retries attempts the call returns False
DNextAttempt ==
    IF dl_attempt + 1 < dl_max_retries
    THEN /\ dl_attempt' = dl_attempt + 1
         /\ UNCHANGED <<dpc, result, via>>
    ELSE /\ dl_attempt' = dl_attempt
         /\ DReturn("False", "Failed")

\* how an attempt ends, for both implementations
EndAttempt(how) ==
    /\ \E w \in Sleeps(how, dl_attempt) : slept' = w
    /\ CASE how = "ok"      -> /\ DReturn("True", "Success")
                               /\ dl_attempt' = dl_attempt
         [] how = "giveup"  -> /\ DReturn("False", "Failed")
                               /\ dl_attempt' = dl_attempt
         [] how = "oserror" -> /\ DReturn(OuterExcept, "Error")
                               /\ dl_attempt' = dl_attempt
         [] OTHER           -> DNextAttempt

\* one attempt of civitai_downloader.download_image
AttemptUser ==
    /\ impl = "user"
    /\ dpc = "transfer"
    /\ \E o \in AttemptOutcomes(OriginalUrl(item) # item.url /\ StartsWithHttp(item)) :
         LET filepath == Filepath(item)
             fallback == /\ o.r1 = "err"
                         /\ OriginalUrl(item) # item.url
                         /\ StartsWithHttp(item)
             r        == IF fallback THEN o.r2 ELSE o.r1
             written  == r = "200" /\ o.body # "oserr"
             after    == IF written THEN WriteBody(dir, filepath, o.body) ELSE dir
             how      == CASE r = "200" /\ o.body = "oserr" -> "oserror"
                           [] r = "200" /\ o.body \in {"cut0", "cut1"} -> "exc"
                           [] r = "200" /\ ValidFile(after, filepath) -> "ok"
                           [] r = "200" -> "empty"
                           [] r = "err" -> "excurl"
                           [] OTHER     -> r
         IN  /\ ncanon' = ncanon + 1
             /\ nfallback' = nfallback + (IF fallback THEN 1 ELSE 0)
             /\ nreq' = nreq + (IF fallback THEN 2 ELSE 1)
             /\ only429' = (only429 /\ o.r1 = "429")
             /\ dir' = after
             /\ EndAttempt(how)
    /\ UNCHANGED <<img_data, original_url, ext, filename>>
    /\ UNCHANGED <<impl, platform, item, potential_dupes, call, dir0, renames,
                   checked, prevResult, prevDir>>
    /\ UNCHANGED <<fvars, mvars, pvars>>

\* one attempt of civitai_collection_downloader.download_image
AttemptCollection ==
    /\ impl = "collection"
    /\ dpc = "transfer"
    /\ \E o \in AttemptOutcomes(OriginalUrl(item) # item.url /\ StartsWithHttp(item)) :
         LET filepath == Filepath(item)
             fallback == o.r1 = "err" /\ OriginalUrl(item) # item.url
             \* requests.get(url) on a token raises MissingSchema, a
             \* RequestException, without sending anything
             sent     == fallback /\ StartsWithHttp(item)
             r        == IF fallback
                         THEN (IF sent THEN o.r2 ELSE "excurl")
                         ELSE o.r1
             written  == r = "200" /\ o.body # "oserr"
             after    == IF written THEN WriteBody(dir, filepath, o.body) ELSE dir
             how      == CASE r = "200" /\ o.body = "oserr" -> "oserror"
                           [] r = "200" /\ o.body \in {"cut0", "cut1"} -> "exc"
                           [] r = "200" -> "ok"
                           [] r = "err" -> "giveup"
                           [] OTHER     -> r
         IN  /\ ncanon' = ncanon + 1
             /\ nfallback' = nfallback + (IF fallback THEN 1 ELSE 0)
             /\ nreq' = nreq + (IF sent THEN 2 ELSE 1)
             /\ only429' = (only429 /\ o.r1 = "429")
             /\ dir' = after
             /\ EndAttempt(how)
    /\ UNCHANGED <<img_data, original_url, ext, filename>>
    /\ UNCHANGED <<impl, platform, item, potential_dupes, call, dir0, renames,
                   checked, prevResult, prevDir>>
    /\ UNCHANGED <<fvars, mvars, pvars>>

-----------------------------------------------------------------------------
(* SpecDownload: download_image called MaxCalls times for the item with id  *)
(* 1 on a directory that holds any mix of same-id files and may hold the    *)
(* files of the other items                                                 *)

InitDownload ==
    /\ FetchIdle
    /\ MergeIdle
    /\ PoolIdle
    /\ impl \in {"user", "collection"}
    /\ platform \in {"posix", "nt"}
    /\ item \in [id : {1}, name : {"new"}, url : UrlKinds]
    /\ \E same \in [Stems -> {"absent", "empty", "bytes"}],
          others \in SUBSET (Ids \ {item.id}) :
          dir = [n \in FileNames |->
                   IF n.id = item.id
                   THEN (IF same[n.stem] = "bytes" THEN EarlierBytes(n)
                         ELSE same[n.stem])
                   ELSE IF n.stem = "new" /\ n.id \in others
                        THEN EarlierBytes(n)
                        ELSE "absent"]
    /\ dpc = "idle"
    /\ potential_dupes = <<>>
    /\ dl_attempt = 0
    /\ nreq = 0
    /\ ncanon = 0
    /\ nfallback = 0
    /\ slept = 0
    /\ only429 = TRUE
    /\ result = "none"
    /\ via = "none"
    /\ call = 0
    /\ dir0 = dir
    /\ renames = 0
    /\ checked = "none"
    /\ prevResult = "none"
    /\ prevDir = dir
    /\ NamesIdle

NextDownload ==
    \/ StartDownload
    \/ ReconcileStep
    \/ CheckExisting
    \/ AttemptUser
    \/ AttemptCollection

SpecDownload == InitDownload /\ [][NextDownload]_vars

-----------------------------------------------------------------------------
(* download_image: the strings.  str operations on sequences of characters  *)

\* s.startswith(p), s.endswith(p), p in s
StartsWith(s, p) == Len(s) >= Len(p) /\ SubSeq(s, 1, Len(p)) = p

EndsWith(s, p) ==
    Len(s) >= Len(p) /\ SubSeq(s, Len(s) - Len(p) + 1, Len(s)) = p

HasSub(s, p) ==
    \E i \in 1 .. Len(s) - Len(p) + 1 : SubSeq(s, i, i + Len(p) - 1) = p

\* s.split(c)
RECURSIVE Split(_, _)
Split(s, c) ==
    IF \A i \in 1 .. Len(s) : s[i] # c THEN <<s>>
    ELSE LET k == CHOOSE i \in 1 .. Len(s) :
                      s[i] = c /\ \A j \in 1 .. i - 1 : s[j] # c
         IN  <<SubSeq(s, 1, k - 1)>> \o Split(SubSeq(s, k + 1, Len(s)), c)

\* c.join(parts)
RECURSIVE Join(_, _)
Join(parts, c) ==
    IF parts = <<>> THEN <<>>
    ELSE IF Len(parts) = 1 THEN parts[1]
    ELSE parts[1] \o <<c>> \o Join(Tail(parts), c)

\* s.strip()
RECURSIVE StripLeft(_)
StripLeft(s) == IF s # <<>> /\ s[1] = " " THEN StripLeft(Tail(s)) ELSE s

RECURSIVE StripRight(_)
StripRight(s) ==
    IF s # <<>> /\ s[Len(s)] = " " THEN StripRight(SubSeq(s, 1, Len(s) - 1))
    ELSE s

Strip(s) == StripRight(StripLeft(s))

\* c.isalpha() or c.isdigit() or c in (' ', '-', '_'), on the characters
\* the strings of this model are made of
Letters == {"a", "b", "c", "d", "e", "f", "g", "h", "i", "j", "k", "l", "m",
            "n", "o", "p", "q", "r", "s", "t", "u", "v", "w", "x", "y", "z",
            "A", "B", "C", "D", "E", "F", "G", "H", "I", "J", "K", "L", "M",
            "N", "O", "P", "Q", "R", "S", "T", "U", "V", "W", "X", "Y", "Z"}

Digits == {"0", "1", "2", "3", "4", "5", "6", "7", "8", "9"}

KeptInName(c) == c \in Letters \cup Digits \cup {" ", "-", "_"}

\* mutant of Sanitize: dots are kept
SanitizeKeepDots(name) == Strip(SelectSeq(name, LAMBDA c : KeptInName(c) \/ c = "."))

\* "".join([c for c in name if ...]).strip()
Sanitize(name) == Strip(SelectSeq(name, KeptInName))

\* the same for the composed file name, where dots are kept too
KeptInFilename(c) == KeptInName(c) \/ c = "."

SanitizeFilename(s) == Strip(SelectSeq(s, KeptInFilename))

\* the literals of the source
Http == <<"h", "t", "t", "p">>

WidthEq == <<"w", "i", "d", "t", "h", "=">>

SlashWidthEq == <<"/">> \o WidthEq

OriginalTrue == <<"o", "r", "i", "g", "i", "n", "a", "l", "=", "t", "r", "u", "e">>

ImagePng == <<"i", "m", "a", "g", "e", ".", "p", "n", "g">>

VideoMp4 == <<"v", "i", "d", "e", "o", ".", "m", "p", "4">>

Png == <<"p", "n", "g">>

Mp4 == <<"m", "p", "4">>

DotMp4 == <<".">> \o Mp4

\* https://image.civitai.com/xG1nkqKTMzGDvpLrqFT7WA
BaseHost == 
    <<"h", "t", "t", "p", "s", ":", "/", "/", "i", "m", "a", "g", "e", ".",
      "c", "i", "v", "i", "t", "a", "i", ".", "c", "o", "m", "/", "x", "G",
      "1", "n", "k", "q", "K", "T", "M", "z", "G", "D", "v", "p", "L", "r",
      "q", "F", "T", "7", "W", "A">>

\* f"{BaseHost}/{uuid}/original=true/{hint}"
BuiltUrl(uuid, hint) == Join(<<BaseHost, uuid, OriginalTrue, hint>>, "/")

\* the loop over url.split('/') that rewrites the width=... parts
ReplaceWidth(parts) ==
    [i \in 1 .. Len(parts) |->
        IF StartsWith(parts[i], WidthEq) THEN OriginalTrue ELSE parts[i]]

\* the branch for a url that starts with http (the same in both files)
FullUrl(url) ==
    IF HasSub(url, SlashWidthEq)
    THEN Join(ReplaceWidth(Split(url, "/")), "/")
    ELSE url

\* ext_part.split('.')[-1] when the last part of the url has a dot before
\* its query string, otherwise the default
UrlExt(url) ==
    LET parts    == Split(url, "/")
        last     == parts[Len(parts)]
        ext_part == Split(last, "?")[1]
        pieces   == Split(ext_part, ".")
    IN  IF HasSub(last, <<".">>) /\ HasSub(ext_part, <<".">>)
        THEN pieces[Len(pieces)]
        ELSE Png

\* mutant of Ext: the extension is read off the url alone
ExtFromUrl(i, d) == UrlExt(d.url)

\* ext as download_image of implementation i leaves it
Ext(i, d) ==
    IF i = "user"
    THEN IF d.type = "video" \/ EndsWith(d.url, DotMp4) THEN Mp4
         ELSE UrlExt(d.url)
    ELSE IF \/ d.mimeType = "video/mp4"
            \/ d.type = "video"
            \/ EndsWith(d.url, DotMp4)
         THEN Mp4
         ELSE UrlExt(d.url)

\* original_url as download_image of implementation i leaves it
CanonicalUrl(i, d) ==
    IF StartsWith(d.url, Http) THEN FullUrl(d.url)
    ELSE IF i = "user"
    THEN BuiltUrl(d.url, IF d.name # NoString THEN d.name ELSE ImagePng)
    ELSE LET name == Sanitize(d.name)
         IN  IF Ext(i, d) = Mp4
             THEN BuiltUrl(d.url, IF name # NoString THEN name \o DotMp4
                                  ELSE VideoMp4)
             ELSE BuiltUrl(d.url, IF name # NoString THEN name ELSE ImagePng)

\* f"image_{img_id}"
ImageUnderscore == <<"i", "m", "a", "g", "e", "_">>

\* str(None), what an f-string makes of a name that is None
NoneText == <<"N", "o", "n", "e">>

\* the name part: img_data['name'] or image_<id>, sanitised, and image_<id>
\* again if nothing is left.  The collection downloader reads the name anew
\* for a token url and leaves it empty, or None, if it is
NamePart(i, d) ==
    LET fallback == ImageUnderscore \o d.id
        first    == Sanitize(IF d.name # NoString THEN d.name ELSE fallback)
        checked_name == IF first # NoString THEN first ELSE fallback
    IN  IF i = "collection" /\ ~StartsWith(d.url, Http)
        THEN IF d.name # NoString THEN Sanitize(d.name) ELSE NoneText
        ELSE checked_name

\* f"{username}_{name}_{img_id}.{ext}" / f"{name}_{img_id}.{ext}"
Composed(i, d) ==
    LET owner == Sanitize(d.username)
        tail  == NamePart(i, d) \o <<"_">> \o d.id \o <<".">> \o Ext(i, d)
    IN  IF i = "collection" /\ owner # NoString
        THEN owner \o <<"_">> \o tail
        ELSE tail

\* mutant of Filename: a long name is cut and nothing re-appended
FilenameCutOnly(i, d) ==
    LET clean == SanitizeFilename(Composed(i, d))
    IN  IF Len(clean) > NameLimit THEN SubSeq(clean, 1, NameKeep) ELSE clean

\* filename as download_image of implementation i leaves it
Filename(i, d) ==
    LET clean == SanitizeFilename(Composed(i, d))
    IN  IF Len(clean) > NameLimit
        THEN SubSeq(clean, 1, NameKeep) \o <<"_">> \o d.id \o <<".">>
             \o Ext(i, d)
        ELSE clean

\* glob's *_<id>.* on a file name
GlobMatches(name, id) == HasSub(name, <<"_">> \o id \o <<".">>)

-----------------------------------------------------------------------------
(* SpecNames: download_image up to the file name, on one item *)

\* img_data['url']: an opaque token, or a URL with or without a width=
\* part, whose last part has no suffix, a suffix, or a suffix and a query
Tokens == {<<"0", "a", "1", "b">>}

UrlFiles == {<<"f">>, <<"f", ".", "p", "n", "g">>, <<"f", ".", "w", "e", "b", "m">>, <<"f", ".", "m", "p", "4">>, <<"f", ".", "p", "n", "g", "?", "v", "=", "1", ".", "5">>}

UrlHead == <<"h", "t", "t", "p", "s", ":", "/", "/", "h">>

Width450 == WidthEq \o <<"4", "5", "0">>

Urls == Tokens
        \cup {Join(<<UrlHead, f>>, "/") : f \in UrlFiles}
        \cup {Join(<<UrlHead, Width450, f>>, "/") : f \in UrlFiles}

\* img_data['name']: missing, plain, with a dot, ending like the file of
\* item 42, longer than the limit
LongName == [k \in 1 .. NameLimit + 1 |-> "a"]

DisplayNames == {NoString, <<"a">>, <<"a", ".", "b">>,
                 <<"a", "_", "4", "2", ".", "b">>, LongName}

\* str(img_data['id']): ids that share digits
ItemIds == {<<"7">>, <<"4", "2">>, <<"1", "4", "2">>}

\* img_data['user']['username']: missing, or ending like the file of item 42
OwnerNames == {NoString, <<"u", "_", "4", "2", ".">>}

ItemData == [id : ItemIds, url : Urls, name : DisplayNames,
             username : OwnerNames,
             type : {"None", "image", "video"},
             mimeType : {"None", "image/png", "video/mp4"}]

\* the statements from the url test down to the extension
DeriveNames ==
    /\ dpc = "names"
    /\ original_url' = CanonicalUrl(impl, img_data)
    /\ ext' = Ext(impl, img_data)
    /\ filename' = Filename(impl, img_data)
    /\ dpc' = "named"
    /\ UNCHANGED <<impl, platform, item, dir, potential_dupes, dl_attempt,
                   nreq, ncanon, nfallback, slept, only429, result, via, call,
                   dir0, renames, checked, prevResult, prevDir, img_data>>
    /\ UNCHANGED <<fvars, mvars, pvars>>

InitNames ==
    /\ FetchIdle
    /\ MergeIdle
    /\ PoolIdle
    /\ impl \in {"user", "collection"}
    /\ img_data \in ItemData
    /\ impl = "user" => img_data.username = NoString
    /\ original_url = NoString
    /\ ext = NoString
    /\ filename = NoString
    /\ dpc = "names"
    /\ platform = "none"
    /\ item = [id |-> 1, name |-> "new", url |-> "none"]
    /\ dir = [n \in FileNames |-> "absent"]
    /\ potential_dupes = <<>>
    /\ dl_attempt = 0
    /\ nreq = 0
    /\ ncanon = 0
    /\ nfallback = 0
    /\ slept = 0
    /\ only429 = TRUE
    /\ result = "none"
    /\ via = "none"
    /\ call = 0
    /\ dir0 = [n \in FileNames |-> "absent"]
    /\ renames = 0
    /\ checked = "none"
    /\ prevResult = "none"
    /\ prevDir = [n \in FileNames |-> "absent"]

NextNames == DeriveNames

SpecNames == InitNames /\ [][NextNames]_vars

-----------------------------------------------------------------------------
(* SpecDeleter: civitai_deleter.py, process_user_deletion on one user whose  *)
(* images the endpoint serves page by page, answering by cursor              *)

BadDate == 0 - 1     \* a createdAt that datetime.fromisoformat rejects
NaiveDate == 0 - 2   \* a createdAt parsed to a datetime without time zone

\* ids that share digits
DelIds == {<<"4", "2">>, <<"1", "4", "2">>}

DelRecords == [id : DelIds, createdAt : {NoDate, BadDate, NaiveDate} \cup Dates]

\* names the downloaded items had
DelNames == {<<"a">>, <<"a", "_", "4", "2", ".", "b">>}

\* the file the downloader wrote for the item id under the name n
DelFile(id, n) ==
    Filename("user", [NoItem EXCEPT !.id = id, !.name = n,
                                    !.url = <<"0", "a", "1", "b">>])

FilesOf(id) == {DelFile(id, n) : n \in DelNames}

LocalFiles == UNION {FilesOf(id) : id \in DelIds}

\* mutant of Old: an item on the bound counts as older
OldInclusive(rec) == rec.createdAt \in Dates /\ rec.createdAt <= before_date

\* created_at < before_date, for a createdAt that is there and was parsed
Old(rec) == rec.createdAt \in Dates /\ rec.createdAt < before_date

\* comparing a datetime without time zone with before_date is a TypeError,
\* which the except ValueError of the loop does not catch
Raises(batch) == \E i \in 1 .. Len(batch) : batch[i].createdAt = NaiveDate

\* the loop over batch appending to images_to_delete
OldOf(batch) == SelectSeq(batch, Old)

\* the while-loop body from result_data = data.get(...) on, data being d
ProcessData(d) ==
    IF Raises(d.batch)
    THEN /\ fpc' = "raised"
         /\ UNCHANGED <<items, cursor, attempt, returned, rounds>>
    ELSE LET acc == items \o OldOf(d.batch)
         IN  /\ items' = acc
             /\ cursor' = d.next
             /\ rounds' = rounds + 1
             /\ IF d.next = NoneCursor
                THEN Return(acc) /\ attempt' = attempt
                ELSE NextPage

MetaRequesting ==
    /\ fetcher = "get_images_metadata"
    /\ xpc = "scan"
    /\ fpc = "request"
    /\ rounds < FeedRounds

\* a 200 response with a JSON body: data is assigned and the for-loop left
MetaPage ==
    /\ MetaRequesting
    /\ data' = feed[cursor]
    /\ pages' = pages + 1
    /\ lastSent' = cursor
    /\ n5xx' = 0
    /\ page_fails' = 0
    /\ ProcessData(feed[cursor])
    /\ UNCHANGED <<fetcher, is_username, after_date, page, feed, cvars, lastNext,
                   lastBatchLen, lastFail, failCursor, fwait, lastImages,
                   lastDate>>
    /\ UNCHANGED <<before_date, has_dir, local, todo, xpc>>
    /\ UNCHANGED <<mvars, dvars, pvars>>

\* a 5xx answer: sleep and continue; after the last attempt the for-loop
\* ends without a break and the body goes on with whatever data holds
Meta5xx ==
    /\ MetaRequesting
    /\ n5xx' = (IF attempt = 0 THEN 1
               ELSE IF n5xx = attempt THEN n5xx + 1 ELSE 0)
    /\ page_fails' = (IF attempt = 0 THEN 1 ELSE page_fails + 1)
    /\ lastSent' = cursor
    /\ IF attempt + 1 < max_retries
       THEN /\ attempt' = attempt + 1
            /\ UNCHANGED <<items, cursor, fpc, returned, rounds>>
       ELSE IF data = NoData
            THEN /\ fpc' = "raised"
                 /\ UNCHANGED <<items, cursor, attempt, returned, rounds>>
            ELSE ProcessData(data)
    /\ UNCHANGED <<fetcher, is_username, after_date, page, feed, cvars, pages,
                   lastNext, lastBatchLen, lastFail, failCursor, fwait,
                   lastImages, lastDate>>
    /\ UNCHANGED <<before_date, data, has_dir, local, todo, xpc>>
    /\ UNCHANGED <<mvars, dvars, pvars>>

\* an exception in the try block (no connection, a timeout, the HTTPError of
\* raise_for_status, a body that is not JSON): return on the last attempt
MetaExc ==
    /\ MetaRequesting
    /\ n5xx' = 0
    /\ page_fails' = (IF attempt = 0 THEN 1 ELSE page_fails + 1)
    /\ lastSent' = cursor
    /\ IF attempt = max_retries - 1
       THEN Return(items) /\ attempt' = attempt
       ELSE /\ attempt' = attempt + 1
            /\ UNCHANGED <<fpc, returned>>
    /\ UNCHANGED <<fetcher, is_username, after_date, page, feed, cvars, pages, items,
                   cursor, rounds, lastNext, lastBatchLen, lastFail,
                   failCursor, fwait, lastImages, lastDate>>
    /\ UNCHANGED <<before_date, data, has_dir, local, todo, xpc>>
    /\ UNCHANGED <<mvars, dvars, pvars>>

DeleterKeeps ==
    UNCHANGED <<fetcher, is_username, after_date, page, feed, cvars, cursor, attempt,
                items, returned, pages, lastSent, lastNext, lastBatchLen,
                page_fails, lastFail, failCursor, fwait, lastImages, lastDate,
                before_date, data, n5xx, rounds, has_dir>>

\* the head of process_user_deletion: the user id is resolved or it is not
ResolveDeletion ==
    /\ xpc = "resolve"
    /\ \E user_id \in {"None", "me"} :
         IF user_id = "None"
         THEN xpc' = "skipped" /\ fpc' = fpc
         ELSE xpc' = "scan" /\ fpc' = "request"
    /\ UNCHANGED <<local, todo>>
    /\ DeleterKeeps
    /\ UNCHANGED <<mvars, dvars, pvars>>

\* get_images_metadata has returned: nothing to delete, no directory, or
\* the deletion loop
ScanReturned ==
    /\ xpc = "scan"
    /\ fpc = "done"
    /\ IF returned = <<>> THEN xpc' = "nothing" /\ todo' = todo
       ELSE IF ~has_dir THEN xpc' = "nodir" /\ todo' = todo
       ELSE xpc' = "delete" /\ todo' = returned
    /\ UNCHANGED <<local, fpc>>
    /\ DeleterKeeps
    /\ UNCHANGED <<mvars, dvars, pvars>>

\* one round of the loop over items_to_delete: every match is removed
DeleteItem ==
    /\ xpc = "delete"
    /\ IF todo = <<>>
       THEN xpc' = "finished" /\ UNCHANGED <<local, todo>>
       ELSE /\ local' = {f \in local : ~GlobMatches(f, Head(todo).id)}
            /\ todo' = Tail(todo)
            /\ xpc' = xpc
    /\ fpc' = fpc
    /\ DeleterKeeps
    /\ UNCHANGED <<mvars, dvars, pvars>>

\* the collections the endpoint serves, one record or none per page
DeleterPages ==
    UNION {[1 .. n -> BatchesOf(DelRecords)] : n \in 1 .. MaxPages}

InitDeleter ==
    /\ fetcher = "get_images_metadata"
    /\ is_username = FALSE
    /\ after_date = NoDate
    /\ feed \in {ChainFeed(ps) : ps \in DeleterPages}
    /\ cursor = NoneCursor
    /\ attempt = 0
    /\ items = <<>>
    /\ fpc = "off"
    /\ returned = <<>>
    /\ pages = 0
    /\ lastSent = NoneCursor
    /\ lastNext = NoneCursor
    /\ lastBatchLen = 0
    /\ page_fails = 0
    /\ lastFail = "none"
    /\ failCursor = NoneCursor
    /\ fwait = 0
    /\ lastImages = <<>>
    /\ lastDate = NoDate
    /\ page = <<>>
    /\ CollectionIdle
    /\ before_date \in Dates
    /\ data = NoData
    /\ n5xx = 0
    /\ rounds = 0
    /\ has_dir \in BOOLEAN
    /\ local = (IF has_dir THEN LocalFiles ELSE {})
    /\ todo = <<>>
    /\ xpc = "resolve"
    /\ MergeIdle
    /\ DownloadIdle
    /\ PoolIdle

NextDeleter ==
    \/ ResolveDeletion
    \/ MetaPage
    \/ Meta5xx
    \/ MetaExc
    \/ ScanReturned
    \/ DeleteItem

SpecDeleter == InitDeleter /\ [][NextDeleter]_vars

-----------------------------------------------------------------------------
(* SpecCollection: process_collection from its argument to the point where   *)
(* the fetchers are called                                                   *)

\* get_collection_name returning None
NoneName == <<"None">>

\* str(int(s)) for a string of digits
RECURSIVE IntText(_)
IntText(s) == IF Len(s) > 1 /\ s[1] = "0" THEN IntText(Tail(s)) ELSE s

\* s.isdigit()
IsDigit(s) == s # <<>> /\ \A i \in 1 .. Len(s) : s[i] \in Digits

\* the text before the first of the characters in cs
RECURSIVE Before(_, _)
Before(s, cs) ==
    IF s = <<>> \/ s[1] \in cs THEN <<>>
    ELSE <<s[1]>> \o Before(Tail(s), cs)

\* the text from the first c on
RECURSIVE From(_, _)
From(s, c) == IF s = <<>> \/ s[1] = c THEN s ELSE From(Tail(s), c)

SchemeSep == <<":", "/", "/">>

\* urlparse(s).path: without query and fragment, and without scheme and host
UrlPath(s) ==
    LET plain == Before(s, {"?", "#"})
        k == CHOOSE i \in 1 .. Len(plain) : SubSeq(plain, i, i + 2) = SchemeSep
    IN  IF HasSub(plain, SchemeSep)
        THEN From(SubSeq(plain, k + 3, Len(plain)), "/")
        ELSE plain

CollectionsWord == <<"c", "o", "l", "l", "e", "c", "t", "i", "o", "n", "s">>

CollectionUnderscore ==
    <<"C", "o", "l", "l", "e", "c", "t", "i", "o", "n", "_">>

\* get_collection_id, None being NoneText
GetCollectionId(in) ==
    IF IsDigit(in) THEN IntText(in)
    ELSE LET path_parts == Split(UrlPath(in), "/")
         IN  IF \E i \in 1 .. Len(path_parts) : path_parts[i] = CollectionsWord
             THEN LET idx == CHOOSE i \in 1 .. Len(path_parts) :
                                 /\ path_parts[i] = CollectionsWord
                                 /\ \A j \in 1 .. i - 1 :
                                        path_parts[j] # CollectionsWord
                  IN  IF idx + 1 <= Len(path_parts) /\ IsDigit(path_parts[idx + 1])
                      THEN IntText(path_parts[idx + 1])
                      ELSE NoneText
             ELSE NoneText

\* not collection_id: None or 0
NoCollectionId(id) == id = NoneText \/ id = <<"0">>

\* get_collection_name on the answer of collection.getById
GetCollectionName(id, answer) ==
    IF answer.kind = "gone" THEN NoneName
    ELSE IF answer.kind = "found" /\ answer.name # NoString
         THEN Sanitize(answer.name)
         ELSE CollectionUnderscore \o id

\* not collection_name: None or the empty string
NoCollectionName(name) == name = NoneName \/ name = NoString

\* command line arguments: ids, other words, URLs with and without an id
CollectionInputs ==
    {<<"1", "2">>, <<"0">>, <<"0", "7">>, <<"a", "b">>, <<"1", "a">>, NoString,
     Join(<<UrlHead, CollectionsWord, <<"1", "2">>>>, "/"),
     Join(<<UrlHead, CollectionsWord, <<"1", "2", "?", "v", "=", "1">>>>, "/"),
     Join(<<UrlHead, CollectionsWord, <<"1", "2">>, <<"x">>>>, "/"),
     Join(<<UrlHead, CollectionsWord, <<"a", "b">>>>, "/"),
     Join(<<UrlHead, CollectionsWord>>, "/"),
     Join(<<UrlHead, <<"m">>, <<"1", "2">>>>, "/"),
     Join(<<CollectionsWord, <<"1", "2">>>>, "/")}

\* names of collections: none, plain, with characters that are dropped,
\* made of such characters only, blank
CollectionNames ==
    {NoString, <<"a">>, <<"a", ".", "b">>, <<" ", "a", " ">>,
     <<".", ".", ".">>, <<"!", "?">>, <<" ">>}

\* collection.getById: a status other than 200 or an exception ("error"), a
\* 200 answer without a collection object ("gone"), a 200 answer with one
Lookups ==
    {[kind |-> k, name |-> NoString] : k \in {"error", "gone"}}
    \cup {[kind |-> "found", name |-> n] : n \in CollectionNames}

CollectionKeeps ==
    UNCHANGED <<fetcher, is_username, after_date, page, feed, xvars, cursor,
                attempt, items, fpc, returned, pages, lastSent, lastNext,
                lastBatchLen, page_fails, lastFail, failCursor, fwait,
                lastImages, lastDate>>

\* collection_id = get_collection_id(collection_input) and its check
ResolveCollectionId ==
    /\ cpc = "start"
    /\ collection_id' = GetCollectionId(collection_input)
    /\ cpc' = (IF NoCollectionId(collection_id') THEN "no_id" ELSE "lookup")
    /\ UNCHANGED <<collection_input, lookup, collection_name>>
    /\ CollectionKeeps
    /\ UNCHANGED <<mvars, dvars, pvars>>

\* collection_name = get_collection_name(collection_id, api_key) and its
\* check
ResolveCollectionName ==
    /\ cpc = "lookup"
    /\ collection_name' = GetCollectionName(collection_id, lookup)
    /\ cpc' = (IF NoCollectionName(collection_name') THEN "not_found"
               ELSE "fetch")
    /\ UNCHANGED <<collection_input, lookup, collection_id>>
    /\ CollectionKeeps
    /\ UNCHANGED <<mvars, dvars, pvars>>

InitCollection ==
    /\ PagesIdle
    /\ DeleterIdle
    /\ collection_input \in CollectionInputs
    /\ lookup \in Lookups
    /\ collection_id = <<>>
    /\ collection_name = <<>>
    /\ cpc = "start"
    /\ MergeIdle
    /\ DownloadIdle
    /\ PoolIdle

NextCollection ==
    \/ ResolveCollectionId
    \/ ResolveCollectionName

SpecCollection == InitCollection /\ [][NextCollection]_vars


-----------------------------------------------------------------------------
(* main, process_user / process_collection and their thread pools.  A unit  *)
(* record holds upc, n (the merged items are 1 .. n), todo (items not yet   *)
(* submitted), queue (work items no worker has taken), running (items whose *)
(* download_image is in progress), started and completed (the starts and    *)
(* the completions so far, in order), early (futures done before            *)
(* as_completed was called, not yet yielded), nearly (how many were done    *)
(* by then), late (futures done after the call, not yet yielded), counted   *)
(* (the ids counted so far, in order) and the two counters.                 *)

\* output_dir = os.path.join("downloads", username): a profile URL and the
\* user name in it give the same directory
OutputDir(u) == IF u \in {"alice", "url_alice"} THEN "downloads/alice"
                ELSE "downloads/bob"

\* main: skip the strings already seen, keep the order
RECURSIVE Dedupe(_, _)
Dedupe(list, seen) ==
    IF list = <<>> THEN <<>>
    ELSE IF Head(list) \in seen
         THEN Dedupe(Tail(list), seen)
         ELSE <<Head(list)>> \o Dedupe(Tail(list), seen \cup {Head(list)})

\* the units an outer worker is running
Active == {u \in Identifiers :
             unit[u].upc \in {"images", "posts", "submit", "collect"}}

\* an outer worker thread is free
OuterFree == Cardinality(Active) < max_concurrent_users

\* mutant of InnerFree: the pool starts a thread for every work item
InnerFreeAlways(r) == TRUE

\* a worker thread of the unit's ThreadPoolExecutor(max_workers=2) is free
InnerFree(r) == Cardinality(r.running) < max_workers

\* a future as [id, ok]
Futures == [id : 1 .. MaxItems, ok : BOOLEAN]

\* what as_completed may yield next: the futures that were done when it was
\* called come first, as a set, then the others as they complete
Yieldable(r) ==
    IF r.early # {} THEN r.early
    ELSE IF r.late # <<>> THEN {Head(r.late)}
    ELSE {}

\* mutant of CountResult: a failure is not counted
CountResultSuccessOnly(r, ok) ==
    IF ok THEN [r EXCEPT !.success_count = @ + 1] ELSE r

\* if result: success_count += 1  else: fail_count += 1
CountResult(r, ok) ==
    IF ok THEN [r EXCEPT !.success_count = @ + 1]
    ELSE [r EXCEPT !.fail_count = @ + 1]

\* how many items the merge of a unit may give: a unit that runs alone is
\* followed through up to MaxItems items, the two units of FullPair through
\* as many items as an inner pool has threads, other units that run side by
\* side through one item each
FullPair == <<"alice", "bob">>

ItemCounts ==
    IF Len(Dedupe(users, {})) = 1 THEN 0 .. MaxItems
    ELSE IF users = FullPair THEN 0 .. max_workers
    ELSE 0 .. 1

\* main: deduplicate the identifiers and submit every unit
MainSubmit ==
    /\ mainpc = "start"
    /\ LET unique_users == Dedupe(users, {})
       IN  /\ outer' = unique_users
           /\ unit' = [u \in Identifiers |->
                         IF \E i \in 1 .. Len(unique_users) : unique_users[i] = u
                         THEN [unit[u] EXCEPT !.upc = "queued"]
                         ELSE unit[u]]
    /\ mainpc' = "waiting"
    /\ UNCHANGED users
    /\ UNCHANGED <<fvars, mvars, dvars>>

\* mutant of Unresolved: the pages are fetched before the id is looked at
UnresolvedFetches(r) == [r EXCEPT !.upc = "skipped", !.fetched = TRUE]

\* the identifier does not resolve (no user id; no collection id, or the
\* collection is reported missing): the function logs it and returns
Unresolved(r) == [r EXCEPT !.upc = "skipped"]

\* the identifier resolves: the direct-items fetcher is called
Resolved(r) == [r EXCEPT !.upc = "images"]

\* an outer worker takes the next unit and resolves its identifier
UnitStart ==
    /\ mainpc = "waiting"
    /\ outer # <<>>
    /\ OuterFree
    /\ \/ unit' = [unit EXCEPT ![Head(outer)] = Unresolved(@)]
       \/ unit' = [unit EXCEPT ![Head(outer)] = Resolved(@)]
    /\ outer' = Tail(outer)
    /\ UNCHANGED <<users, mainpc>>
    /\ UNCHANGED <<fvars, mvars, dvars>>

\* mutant of Merged: the downloads are submitted, then the container fetch
\* is run
MergedEarly(r, n) ==
    [r EXCEPT !.upc = "posts", !.made_dir = TRUE,
              !.n = n, !.queue = [i \in 1 .. n |-> i]]

\* both fetchers have returned and their results are merged into n items.
\* Nothing found: the function returns; otherwise the directory is made
\* and the inner executor created
Merged(r, n) ==
    IF n = 0
    THEN [r EXCEPT !.upc = "done"]
    ELSE [r EXCEPT !.upc = "submit", !.made_dir = TRUE,
                   !.n = n, !.todo = [i \in 1 .. n |-> i]]

\* the fetcher the unit is in calls requests.get for a page (a first
\* request, the next cursor, or a retry)
PageSend(u) ==
    /\ unit[u].upc \in {"images", "posts"}
    /\ unit[u].inflight = 0
    /\ unit' = [unit EXCEPT ![u] =
                  [@ EXCEPT !.inflight = @ + 1,
                            !.fetched = TRUE,
                            !.container = (unit[u].upc = "posts")]]
    /\ UNCHANGED <<users, mainpc, outer>>
    /\ UNCHANGED <<fvars, mvars, dvars>>

\* requests.get returns or raises: the fetcher's loops go on with another
\* request, or the fetcher returns; after the container fetcher the merge
PageRecv(u) ==
    /\ unit[u].inflight > 0
    /\ \/ unit' = [unit EXCEPT ![u] = [@ EXCEPT !.inflight = @ - 1]]
       \/ /\ unit[u].upc = "images"
          /\ unit' = [unit EXCEPT ![u] =
                        [@ EXCEPT !.inflight = @ - 1, !.upc = "posts"]]
       \/ /\ unit[u].upc = "posts"
          /\ \E n \in ItemCounts :
                unit' = [unit EXCEPT ![u] =
                           Merged([@ EXCEPT !.inflight = @ - 1], n)]
    /\ UNCHANGED <<users, mainpc, outer>>
    /\ UNCHANGED <<fvars, mvars, dvars>>

\* executor.submit(download_image, img, output_dir) for the next img
Submit(u) ==
    /\ unit[u].upc = "submit"
    /\ unit[u].todo # <<>>
    /\ unit' = [unit EXCEPT ![u] =
                  [@ EXCEPT !.queue = Append(@, Head(unit[u].todo)),
                            !.todo = Tail(@)]]
    /\ UNCHANGED <<users, mainpc, outer>>
    /\ UNCHANGED <<fvars, mvars, dvars>>

\* as_completed(futures) is called: the futures done by now are its first
\* batch
BeginCollect(u) ==
    /\ unit[u].upc = "submit"
    /\ unit[u].todo = <<>>
    /\ unit' = [unit EXCEPT ![u] =
                  [@ EXCEPT !.upc = "collect",
                            !.nearly = Len(unit[u].completed)]]
    /\ UNCHANGED <<users, mainpc, outer>>
    /\ UNCHANGED <<fvars, mvars, dvars>>

\* a free worker thread takes the oldest work item and calls download_image
WorkerStart(u) ==
    /\ unit[u].queue # <<>>
    /\ InnerFree(unit[u])
    /\ unit' = [unit EXCEPT ![u] =
                  [@ EXCEPT !.running = @ \cup {Head(unit[u].queue)},
                            !.started = Append(@, Head(unit[u].queue)),
                            !.queue = Tail(@)]]
    /\ UNCHANGED <<users, mainpc, outer>>
    /\ UNCHANGED <<fvars, mvars, dvars>>

\* a download_image call returns True or False: its future is done
WorkerFinish(u) ==
    /\ \E id \in unit[u].running, ok \in BOOLEAN :
         LET f == [id |-> id, ok |-> ok]
         IN  unit' = [unit EXCEPT ![u] =
                        [@ EXCEPT !.running = @ \ {id},
                                  !.completed = Append(@, f),
                                  !.early = IF unit[u].upc = "submit"
                                            THEN @ \cup {f} ELSE @,
                                  !.late = IF unit[u].upc = "submit"
                                           THEN @ ELSE Append(@, f)]]
    /\ UNCHANGED <<users, mainpc, outer>>
    /\ UNCHANGED <<fvars, mvars, dvars>>

\* one round of  for future in as_completed(futures); after the last one the
\* with-blocks are left and the unit is over
Collect(u) ==
    /\ unit[u].upc = "collect"
    /\ \E f \in Yieldable(unit[u]) :
         LET r   == unit[u]
             new == CountResult(
                      [r EXCEPT !.early = @ \ {f},
                                !.late = IF r.early # {} THEN @ ELSE Tail(@),
                                !.counted = Append(@, f.id)],
                      f.ok)
         IN  unit' = [unit EXCEPT ![u] =
                        IF Len(new.counted) = r.n
                        THEN [new EXCEPT !.upc = "done"]
                        ELSE new]
    /\ UNCHANGED <<users, mainpc, outer>>
    /\ UNCHANGED <<fvars, mvars, dvars>>

\* main: every future.result() has returned
MainDone ==
    /\ mainpc = "waiting"
    /\ outer = <<>>
    /\ Active = {}
    /\ mainpc' = "finished"
    /\ UNCHANGED <<users, outer, unit>>
    /\ UNCHANGED <<fvars, mvars, dvars>>

-----------------------------------------------------------------------------
(* SpecPool: one run of main on up to three identifiers *)

UnitLists == UNION {[1 .. k -> Identifiers] : k \in 1 .. 3}

InitPool ==
    /\ FetchIdle
    /\ MergeIdle
    /\ DownloadIdle
    /\ users \in UnitLists
    /\ mainpc = "start"
    /\ outer = <<>>
    /\ unit = [u \in Identifiers |-> NoUnit]

NextPool ==
    \/ MainSubmit
    \/ UnitStart
    \/ \E u \in Identifiers : PageSend(u)
    \/ \E u \in Identifiers : PageRecv(u)
    \/ \E u \in Identifiers : Submit(u)
    \/ \E u \in Identifiers : BeginCollect(u)
    \/ \E u \in Identifiers : WorkerStart(u)
    \/ \E u \in Identifiers : WorkerFinish(u)
    \/ \E u \in Identifiers : Collect(u)
    \/ MainDone

SpecPool == InitPool /\ [][NextPool]_vars

\* every thread that can take a step takes one sooner or later
FairPool ==
    /\ WF_vars(MainSubmit)
    /\ WF_vars(UnitStart)
    /\ WF_vars(MainDone)
    /\ \A u \in Identifiers :
          /\ WF_vars(PageSend(u))
          /\ WF_vars(PageRecv(u))
          /\ WF_vars(Submit(u))
          /\ WF_vars(BeginCollect(u))
          /\ WF_vars(WorkerStart(u))
          /\ WF_vars(WorkerFinish(u))
          /\ WF_vars(Collect(u))

\* a run on three different identifiers
InitOuter ==
    /\ InitPool
    /\ Len(users) = 3
    /\ Len(Dedupe(users, {})) = 3

SpecOuter == InitOuter /\ [][NextPool]_vars /\ FairPool

-----------------------------------------------------------------------------
(* Claims about the page fetchers (SpecFetch) *)

\* the last parsed response carried as nextCursor the cursor of its request
Stuck == pages > 0 /\ lastNext = lastSent

\* C1: in get_posts and get_collection_images, once a response carries a
\* nextCursor equal to the cursor sent with its request, the fetcher has
\* returned (no further page request) and returned the items accumulated.
C1_CycleGuardStops ==
    (fetcher \in {"get_posts", "get_collection_images"} /\ Stuck)
        => (fpc = "done" /\ returned = items)

\* a repeat of a real cursor on a non-empty page, caught by the guard
C1_Witness ==
    /\ fetcher = "get_posts"
    /\ Stuck
    /\ lastSent \in Cursors
    /\ lastBatchLen > 0
    /\ fpc = "done"
    /\ Len(returned) > 0

\* C2: get_images and get_collection_posts have returned once a request
\* made with cursor c got a non-empty page whose nextCursor is again c.
C2_StuckCursorTerminates ==
    (/\ fetcher \in {"get_images", "get_collection_posts"}
     /\ Stuck
     /\ lastSent \in Cursors
     /\ lastBatchLen > 0)
        => fpc = "done"

\* C20: in get_images, get_posts and get_collection_images a request that
\* got a 5xx status is followed by a sleep of (attempt + 1) * 5 seconds and a
\* request with the same cursor; a page is requested at most 5 times, and
\* after the 5th failure the fetcher has returned the items accumulated.
C20_ServerErrorRetry ==
    (fetcher \in {"get_images", "get_posts", "get_collection_images"}
       /\ lastFail = "5xx")
        => /\ page_fails <= 5
           /\ fwait = page_fails * 5
           /\ failCursor = cursor
           /\ (fpc = "done") = (page_fails = 5)
           /\ fpc = "done" =>
                 returned = IF fetcher = "get_images" THEN SortDesc(items)
                            ELSE items

\* five 5xx answers on the second page: the first page's items are returned
C20_Witness ==
    /\ fetcher = "get_images"
    /\ lastFail = "5xx"
    /\ fpc = "done"
    /\ page_fails = 5
    /\ fwait = 25
    /\ pages = 1
    /\ cursor \in Cursors
    /\ Len(returned) = 1

\* C21: in get_images, get_posts and get_collection_posts a request that
\* failed with a timeout or a connection error on attempt k is followed by a
\* wait of (k + 1) * 5 seconds and a request for the same page; the fetcher
\* returns only after the 5th failed attempt of a page.
C21_TransientRetry ==
    (fetcher \in {"get_images", "get_posts", "get_collection_posts"}
       /\ lastFail \in {"exc", "exc5xx"})
        => /\ fwait = page_fails * 5
           /\ failCursor = cursor
           /\ (fpc = "done") = (page_fails = 5)

\* C22: every fetcher has returned once a parsed response carried an empty
\* items list, whatever nextCursor it carried.
C22_EmptyPageStops ==
    (pages > 0 /\ lastBatchLen = 0) => fpc = "done"

\* the date bound and the ownership rule in the words of the claims
OlderThanBound(d) == after_date # NoDate /\ d # NoDate /\ d < after_date

AtOrAfterBound(d) == d # NoDate /\ d >= after_date

OwnedOrUnknown(rec) == is_username \/ rec.userId \in {"None", "me"}

\* C23: get_images with after_date: no item older than after_date is in the
\* accumulated or the returned list, and every record of the last parsed
\* page that is at or after the bound (and passes the ownership check) is in
\* the accumulated list, and in the returned list once the fetcher returned.
C23_DateLowerBound ==
    (fetcher = "get_images" /\ after_date # NoDate)
        => /\ \A i \in 1 .. Len(items) : ~OlderThanBound(items[i].createdAt)
           /\ \A i \in 1 .. Len(returned) :
                  ~OlderThanBound(returned[i].createdAt)
           /\ \A i \in 1 .. Len(lastImages) :
                  (AtOrAfterBound(lastImages[i].createdAt)
                     /\ OwnedOrUnknown(lastImages[i]))
                      => /\ \E j \in 1 .. Len(items) : items[j] = lastImages[i]
                         /\ fpc = "done" =>
                               \E j \in 1 .. Len(returned) :
                                   returned[j] = lastImages[i]

\* a record on the bound kept from page 1, an older one of page 2 left out
C23_Witness ==
    /\ fetcher = "get_images"
    /\ after_date = 2
    /\ pages = 2
    /\ fpc = "done"
    /\ Len(lastImages) = 1
    /\ lastImages[1].createdAt = 1
    /\ ~OwnershipDrop(lastImages[1])
    /\ Len(returned) = 1
    /\ returned[1].createdAt = 2

\* C24: get_posts with after_date returns no item whose own createdAt is
\* older than after_date.
C24_ContainerDateBound ==
    (fetcher = "get_posts" /\ after_date # NoDate)
        => \A i \in 1 .. Len(returned) :
               ~OlderThanBound(returned[i].createdAt)

\* C25: get_images and get_posts with after_date have returned once a
\* parsed page's last record carried a timestamp older than after_date,
\* whatever nextCursor the response carried: no request follows it.
C25_DateEarlyStop ==
    (/\ fetcher \in {"get_images", "get_posts"}
     /\ pages > 0
     /\ lastBatchLen > 0
     /\ OlderThanBound(lastDate))
        => fpc = "done"

\* the first page of posts ends with an older post and carries a fresh cursor
C25_Witness ==
    /\ fetcher = "get_posts"
    /\ after_date = 2
    /\ pages = 1
    /\ lastBatchLen > 0
    /\ lastDate = 1
    /\ lastSent = NoneCursor
    /\ lastNext \in Cursors
    /\ fpc = "done"

-----------------------------------------------------------------------------
(* Claims about the per-record loop (SpecFilter) *)

\* what the claim lets through: the owner is the queried one or unknown (any
\* owner when queried by name), and the date check does not apply
PassesImage(rec) ==
    OwnedOrUnknown(rec) /\ ~OlderThanBound(rec.createdAt)

PassesPost(rec) ==
    /\ OwnedOrUnknown(rec)
    /\ ~OlderThanBound(rec.createdAt)
    /\ (rec.createdAt = NoDate => ~OlderThanBound(rec.publishedAt))

RECURSIVE ImagesOfPosts(_)
ImagesOfPosts(ps) ==
    IF ps = <<>> THEN <<>>
    ELSE AttachAll(Head(ps).images, Head(ps)) \o ImagesOfPosts(Tail(ps))

\* C26: queried by id, the loop drops on ownership exactly the records whose
\* userId is present and differs from the queried id; queried by name it
\* drops none on ownership: the output is made of exactly the records that
\* have the right or no owner and are not older than the bound, in order.
C26_OwnershipFilter ==
    fpc = "filtered"
        => items = IF fetcher = "get_images"
                   THEN SelectSeq(page, PassesImage)
                   ELSE ImagesOfPosts(SelectSeq(page, PassesPost))

\* queried by id: a post of another user dropped, one without userId kept
C26_Witness ==
    /\ fetcher = "get_posts"
    /\ fpc = "filtered"
    /\ ~is_username
    /\ after_date = NoDate
    /\ Len(page) = 2
    /\ page[1].userId = "other"
    /\ page[1].images # <<>>
    /\ page[2].userId = "None"
    /\ page[2].images # <<>>
    /\ Len(items) = 1

-----------------------------------------------------------------------------
(* Claims about the merge (SpecMerge) *)

IdsOf(list) == {list[i].id : i \in 1 .. Len(list)}

\* the first / last record with id k in list
FirstWithId(list, k) ==
    list[CHOOSE i \in 1 .. Len(list) :
            /\ list[i].id = k
            /\ \A j \in 1 .. i - 1 : list[j].id # k]

\* the record of the merged list with id k
MergedRecord(k) ==
    final_items[CHOOSE i \in 1 .. Len(final_items) : final_items[i].id = k]

\* C3: the merged list holds no two items with the same id and holds every
\* id of either input.
C3_MergeUnique ==
    mpc = "merged" =>
        /\ \A i, j \in 1 .. Len(final_items) :
              i # j => final_items[i].id # final_items[j].id
        /\ IdsOf(final_items) = IdsOf(images) \cup IdsOf(posts)

\* both inputs repeat an id and share one
C3_Witness ==
    /\ mpc = "merged"
    /\ Len(images) = 2 /\ images[1].id = images[2].id
    /\ Len(posts) = 2 /\ posts[1].id = posts[2].id
    /\ posts[1].id = images[1].id

\* C4: for an id present in both inputs the merged item is a record of the
\* direct-items list, never a post-derived one.
C4_DirectWins ==
    mpc = "merged" =>
        \A k \in IdsOf(images) \cap IdsOf(posts) :
            /\ \E i \in 1 .. Len(images) : MergedRecord(k) = images[i]
            /\ \A j \in 1 .. Len(posts) : MergedRecord(k) # posts[j]

\* an id in both inputs, the post-derived record with another createdAt
C4_Witness ==
    /\ mpc = "merged"
    /\ \E i \in 1 .. Len(images), j \in 1 .. Len(posts) :
          /\ images[i].id = posts[j].id
          /\ images[i].createdAt # posts[j].createdAt

\* C5: when an id occurs more than once within one input list, the merged
\* item is the first occurrence in that list (the direct-items list when the
\* id is there, the post-derived list otherwise).
C5_FirstOccurrenceWins ==
    mpc = "merged" =>
        \A k \in IdsOf(final_items) :
            MergedRecord(k) = IF k \in IdsOf(images)
                              THEN FirstWithId(images, k)
                              ELSE FirstWithId(posts, k)


\* C28: whatever malformed records were fetched (an item without id, a
\* post-derived item with a null createdAt), process_user and
\* process_collection do not raise, and every well-formed fetched item is
\* among the items handed to the download pool.
C28_MalformedTolerated ==
    mpc # "fetched"
        => /\ mpc # "raised"
           /\ \A i \in 1 .. Len(images) :
                  images[i].id # NoId => images[i].id \in IdsOf(final_items)
           /\ \A i \in 1 .. Len(posts) :
                  posts[i].createdAt # NoDate
                      => posts[i].id \in IdsOf(final_items)

-----------------------------------------------------------------------------
(* Claims about download_image (SpecDownload) *)

Target == Filepath(item)

\* the files matching *_<id>.* for the item's id, and those among them that
\* are not the target
SameId(d) == GlobSet(d, item.id)
Stale(d) == SameId(d) \ {Target}

\* a call for an item with a url has returned
Returned == dpc = "returned" /\ item.url # "none"

\* C6: no target file and only non-empty same-id files under other names when
\* the call starts: the call ends with exactly one file for the id, at the
\* target path, holding the bytes of an old file; it returns success and
\* issues no HTTP request.
C6_RenameRecovers ==
    (/\ Returned
     /\ dir0[Target] = "absent"
     /\ Stale(dir0) # {}
     /\ \A n \in Stale(dir0) : dir0[n] \notin {"absent", "empty"})
        => /\ result = "True"
           /\ nreq = 0
           /\ SameId(dir) = {Target}
           /\ \E n \in Stale(dir0) : dir[Target] = dir0[n]

\* the spec's example: one old file, renamed
C6_Witness ==
    /\ Returned
    /\ dir0[Target] = "absent"
    /\ Stale(dir0) = {[stem |-> "old1", id |-> item.id]}
    /\ dir0[[stem |-> "old1", id |-> item.id]] = "was_old1"
    /\ dir[Target] = "was_old1"
    /\ renames = 1

\* C7: the target exists and is non-empty when the call starts: every other
\* same-id file is deleted and the target keeps its content.
C7_DeleteRedundant ==
    (/\ Returned
     /\ dir0[Target] \notin {"absent", "empty"})
        => /\ Stale(dir) = {}
           /\ dir[Target] = dir0[Target]

\* a valid target beside an empty and a non-empty old file
C7_Witness ==
    /\ Returned
    /\ dir0[Target] = "was_new"
    /\ dir0[[stem |-> "old1", id |-> item.id]] = "empty"
    /\ dir0[[stem |-> "old2", id |-> item.id]] = "was_old2"
    /\ Stale(dir) = {}

\* the loop over potential_dupes has ended and nothing was checked yet
PassDone == dpc = "reconcile" /\ potential_dupes = <<>>

\* C8: a reconciliation pass renames at most one file and leaves at most one
\* non-empty file matching *_<id>.*.
C8_OneRenameOneValid ==
    PassDone =>
        /\ renames <= 1
        /\ Cardinality({n \in SameId(dir) : dir[n] # "empty"}) <= 1

\* C9: a target found non-empty after reconciliation gives success with no
\* HTTP request; a target found empty is treated as absent: the transfer
\* loop is entered and the call does not return before a request was issued.
C9_AlreadyPresent ==
    /\ checked \notin {"none", "absent", "empty"}
          => /\ dpc = "returned"
             /\ result = "True"
             /\ via = "AlreadyPresent"
             /\ nreq = 0
    /\ checked = "empty"
          => \/ dpc = "transfer"
             \/ dpc = "returned" /\ nreq >= 1 /\ via # "AlreadyPresent"

\* an empty target was overwritten by a transfer
C9_Witness ==
    /\ checked = "empty"
    /\ dpc = "returned"
    /\ via = "Success"
    /\ dir[Target] = "remote"

\* C10: a second call after a first call that returned success returns
\* success as AlreadyPresent, issues no request and leaves the directory as
\* the first call left it.
C10_SecondRunIdempotent ==
    (/\ Returned
     /\ call >= 2
     /\ prevResult = "True")
        => /\ result = "True"
           /\ via = "AlreadyPresent"
           /\ nreq = 0
           /\ dir = prevDir

\* C11: a call that has only ever been answered 429 has sent one request per
\* attempt, each for original_url and none as a fallback, has slept
\* (attempt + 1) * 10 seconds after the last answer, and returns exactly
\* when the 10th answer has come, with False.
C11_RateLimitBound ==
    (only429 /\ ncanon > 0)
        => /\ nreq = ncanon
           /\ nfallback = 0
           /\ ncanon <= dl_max_retries
           /\ slept = ncanon * 10
           /\ (dpc = "returned") = (ncanon = dl_max_retries)
           /\ dpc = "returned" => result = "False"

\* ten 429 answers, 100 seconds slept after the last, False returned
C11_Witness ==
    /\ only429
    /\ dpc = "returned"
    /\ nreq = 10
    /\ slept = 100
    /\ result = "False"

\* C12: a call makes at most 10 attempts, each with at most one request for
\* original_url and at most one fallback request, and a call whose 10
\* attempts are used up without a valid target file returns False.
C12_SharedBudget ==
    /\ dl_attempt < dl_max_retries
    /\ ncanon <= dl_max_retries
    /\ nfallback <= ncanon
    /\ nreq <= ncanon + nfallback
    /\ (dpc = "returned" /\ ncanon = dl_max_retries /\ ~ValidFile(dir, Target))
          => result = "False"

\* C13: download_image never returns True while the target file is missing
\* or empty; an empty file written from a 200 does not end the call with
\* success.
C13_EmptyResultRejected ==
    (Returned /\ result = "True") => ValidFile(dir, Target)

\* C14: a call that finds at the target path the cut-off file of an earlier
\* transfer does not return AlreadyPresent: it requests the file again.
C14_TruncatedIsAbsent ==
    (Returned /\ dir0[Target] = "partial")
        => /\ via # "AlreadyPresent"
           /\ ncanon >= 1

\* C15: a call that has returned has returned True or False, True exactly
\* for Success and AlreadyPresent, also when open() failed; for an item
\* without url it returned False, made no request and changed no file.
C15_NeverRaises ==
    dpc = "returned" =>
        /\ result \in {"True", "False"}
        /\ (result = "True") = (via \in {"Success", "AlreadyPresent"})
        /\ item.url = "none" =>
              /\ result = "False"
              /\ nreq = 0 /\ ncanon = 0 /\ nfallback = 0
              /\ dir = dir0

\* a 200 whose file could not be opened: False through the outer handler
C15_Witness ==
    /\ dpc = "returned"
    /\ via = "Error"
    /\ result = "False"
    /\ nreq >= 1

\* C16: requests.get(url) is called as a fallback only when original_url
\* differs from url and url is a full URL, at most once per attempt.
C16_FallbackRule ==
    /\ nfallback <= ncanon
    /\ nfallback > 0 => (OriginalUrl(item) # item.url /\ StartsWithHttp(item))

-----------------------------------------------------------------------------
(* Claims about the url and the extension (SpecNames) *)

\* C29: in both implementations the extension of an item of type video is
\* mp4, whatever suffix its url has and whether or not it has a mimeType.
C29_VideoIsMp4 ==
    (dpc = "named" /\ img_data.type = "video") => ext = Mp4

\* a video without mimeType whose url ends in .webm
C29_Witness ==
    /\ dpc = "named"
    /\ impl = "user"
    /\ img_data.type = "video"
    /\ img_data.mimeType = "None"
    /\ EndsWith(img_data.url, <<".", "w", "e", "b", "m">>)
    /\ ext = Mp4

\* the file name hint of the claim: the displayName, else the placeholder
\* of the item's kind
Hint(d) ==
    IF d.name # NoString THEN d.name
    ELSE IF d.type = "video" THEN VideoMp4
    ELSE ImagePng

\* C30: the url requested first is, for a reference without scheme,
\* base_host/<token>/original=true/<hint>; for a url with a width=<N> part,
\* the url with exactly that part replaced by original=true; otherwise the
\* url itself.
C30_CanonicalUrl ==
    dpc = "named"
        => original_url =
             IF ~StartsWith(img_data.url, Http)
             THEN Join(<<BaseHost, img_data.url, OriginalTrue,
                         Hint(img_data)>>, "/")
             ELSE LET parts == Split(img_data.url, "/")
                  IN  Join([i \in 1 .. Len(parts) |->
                              IF parts[i] = Width450 THEN OriginalTrue
                              ELSE parts[i]], "/")

\* the items that differ from d in id, display name and owner name
Variants(d) ==
    {[d EXCEPT !.id = i, !.name = n, !.username = u] :
        i \in ItemIds, n \in DisplayNames,
        u \in IF impl = "user" THEN {NoString} ELSE OwnerNames}

\* the part of a file name before its last dot
StemOf(name) ==
    LET pieces == Split(name, ".")
    IN  Join(SubSeq(pieces, 1, Len(pieces) - 1), ".")

\* C31: the file name has an extension and its stem ends with _<id>, so it
\* matches *_<id>.*, whether or not the name was cut; an item with another
\* id, whatever its display name and owner name, gets another file name.
C31_IdInFileName ==
    dpc = "named"
        => /\ Len(Split(filename, ".")) >= 2
           /\ EndsWith(StemOf(filename), <<"_">> \o img_data.id)
           /\ GlobMatches(filename, img_data.id)
           /\ \A d2 \in Variants(img_data) :
                 d2.id # img_data.id => Filename(impl, d2) # filename

\* a name longer than the limit: cut to 100 characters, _<id>.<ext> appended
C31_Witness ==
    /\ dpc = "named"
    /\ impl = "collection"
    /\ img_data.name = LongName
    /\ img_data.id = <<"1", "4", "2">>
    /\ Len(filename) = NameKeep + 1 + 3 + 1 + Len(ext)
    /\ EndsWith(StemOf(filename), <<"_", "1", "4", "2">>)

\* C32: the pattern *_<X>.* of a call for item X matches no file name the
\* policy gives an item with another id, and the file the call writes is
\* not such a file name either: what the call deletes, renames (the files
\* the pattern matches) or writes (its own file name) embeds id X.
C32_IdentityScoped ==
    dpc = "named"
        => /\ GlobMatches(filename, img_data.id)
           /\ \A d2 \in Variants(img_data) :
                 d2.id # img_data.id
                     => /\ ~GlobMatches(Filename(impl, d2), img_data.id)
                        /\ ~GlobMatches(filename, d2.id)

\* item 42 next to item 142 whose display and owner names end in _42
C32_Witness ==
    /\ dpc = "named"
    /\ impl = "collection"
    /\ img_data.id = <<"4", "2">>
    /\ img_data.name = <<"a", "_", "4", "2", ".", "b">>
    /\ img_data.username # NoString
    /\ GlobMatches(filename, <<"4", "2">>)
    /\ ~GlobMatches(filename, <<"1", "4", "2">>)

-----------------------------------------------------------------------------
(* Claims about the thread pools (SpecPool) *)

NoRepeat(seq) == \A i, j \in 1 .. Len(seq) : i # j => seq[i] # seq[j]

Range(seq) == {seq[i] : i \in 1 .. Len(seq)}

\* the ids of the first k completions of a unit
DoneIds(r, k) == {r.completed[i].id : i \in 1 .. k}

\* the counted ids whose download_image returned True
CountedOk(r) ==
    {id \in Range(r.counted) :
        \E i \in 1 .. Len(r.completed) :
            r.completed[i].id = id /\ r.completed[i].ok}

\* C17: at most 2 download_image calls of one unit are in progress.
C17_InnerBound ==
    \A u \in Identifiers : Cardinality(unit[u].running) <= 2

\* two downloads in progress while a third item waits for a worker
C17_Witness ==
    \E u \in Identifiers :
        /\ unit[u].n = 3
        /\ Cardinality(unit[u].running) = 2
        /\ unit[u].queue # <<>>

\* C18: no item is started twice within a unit, and two units that write to
\* the same output directory never have download_image in progress for the
\* same item id at the same time.
C18_OneWorkerPerItem ==
    /\ \A u \in Identifiers : NoRepeat(unit[u].started)
    /\ \A u, v \in Identifiers :
          (u # v /\ OutputDir(u) = OutputDir(v))
              => unit[u].running \cap unit[v].running = {}

\* C19 as stated: every item is started once and counted once, the results
\* are counted in the order in which the downloads completed, and a finished
\* unit has success_count + fail_count = number of merged items.
C19_CompletionOrder ==
    \A u \in Identifiers :
        LET r == unit[u]
        IN  /\ NoRepeat(r.started)
            /\ NoRepeat(r.counted)
            /\ \A i \in 1 .. Len(r.counted) : r.counted[i] = r.completed[i].id
            /\ r.success_count + r.fail_count = Len(r.counted)
            /\ (r.upc = "done" /\ r.n > 0) =>
                  /\ r.success_count + r.fail_count = r.n
                  /\ Range(r.started) = 1 .. r.n

\* C19 amended: every item is started once and counted once, after its
\* download completed; the results of downloads that had completed when
\* as_completed was called are counted first, in any order, the later ones
\* in completion order; success_count counts the True results and
\* fail_count the others; a finished unit has started and counted every
\* item, whatever failed.
C19_ExactlyOnce ==
    \A u \in Identifiers :
        LET r == unit[u]
        IN  /\ NoRepeat(r.started)
            /\ NoRepeat(r.counted)
            /\ Len(r.counted) <= Len(r.completed)
            /\ \A i \in 1 .. Len(r.counted) :
                  IF i <= r.nearly
                  THEN r.counted[i] \in DoneIds(r, r.nearly)
                  ELSE r.counted[i] = r.completed[i].id
            /\ r.success_count = Cardinality(CountedOk(r))
            /\ r.success_count + r.fail_count = Len(r.counted)
            /\ (r.upc = "done" /\ r.n > 0) =>
                  /\ r.success_count + r.fail_count = r.n
                  /\ Range(r.started) = 1 .. r.n
                  /\ Range(r.counted) = 1 .. r.n

\* a unit of 3 items is over, one download failed, two succeeded, and the
\* first result counted was not the first to complete
C19_Witness ==
    \E u \in Identifiers :
        /\ unit[u].upc = "done"
        /\ unit[u].n = 3
        /\ unit[u].fail_count = 1
        /\ unit[u].success_count = 2
        /\ unit[u].counted[1] # unit[u].completed[1].id

\* the units of the run
Submitted == {users[i] : i \in 1 .. Len(users)}

\* C27: a unit whose identifier did not resolve has fetched no page, made no
\* directory, started no download and counted nothing, and it has returned:
\* it holds no outer worker, the run can always go on until main is through,
\* and by then every other unit has collected the results of all its items.
C27_UnitSkip ==
    /\ \A u \in Identifiers :
          unit[u].upc = "skipped"
              => /\ ~unit[u].fetched
                 /\ ~unit[u].made_dir
                 /\ unit[u].started = <<>>
                 /\ unit[u].queue = <<>>
                 /\ unit[u].success_count + unit[u].fail_count = 0
                 /\ u \notin Active
    /\ (mainpc \in {"start", "waiting"}) => ENABLED NextPool
    /\ mainpc = "finished"
          => \A u \in Submitted :
                \/ unit[u].upc = "skipped"
                \/ /\ unit[u].upc = "done"
                   /\ unit[u].fetched
                   /\ Len(unit[u].counted) = unit[u].n

\* the first of three units is skipped, the two others download their item
C27_Witness ==
    /\ mainpc = "finished"
    /\ users = <<"alice", "bob", "url_alice">>
    /\ unit["alice"].upc = "skipped"
    /\ unit["bob"].upc = "done"
    /\ unit["bob"].success_count = 1
    /\ unit["url_alice"].upc = "done"
    /\ unit["url_alice"].success_count = 1

\* download_image calls running in the whole process
InFlight(k) ==
    \E f \in [Identifiers -> 0 .. max_workers] :
        /\ \A u \in Identifiers : f[u] = Cardinality(unit[u].running)
        /\ f["alice"] + f["url_alice"] + f["bob"] = k

\* the two bounds of C33
OuterBound ==
    /\ Cardinality(Active) <= 2
    /\ \E k \in 0 .. 4 : InFlight(k)

\* C33: at most 2 units are being processed and at most 4 download_image
\* calls are running at any instant, and every unit main has submitted is
\* started sooner or later.
C33_OuterPool ==
    /\ []OuterBound
    /\ \A u \in Identifiers :
          (unit[u].upc = "queued") ~> (unit[u].upc # "queued")

\* C34: while the direct-items fetch of a unit runs, no request of its
\* container fetch has been sent; while either fetch runs, no download of
\* the unit is queued or started; at most one page request of the unit is
\* in flight; a unit with a download queued or started has sent requests of
\* both fetches and has none in flight.
C34_PhaseOrder ==
    \A u \in Identifiers :
        LET r == unit[u]
        IN  /\ r.inflight <= 1
            /\ r.upc = "images" => ~r.container
            /\ r.upc \in {"images", "posts"}
                  => /\ r.queue = <<>>
                     /\ r.started = <<>>
                     /\ ~r.made_dir
            /\ r.inflight > 0 => r.upc \in {"images", "posts"}
            /\ r.container => r.fetched
            /\ (r.queue # <<>> \/ r.started # <<>>)
                  => /\ r.fetched
                     /\ r.container
                     /\ r.inflight = 0
                     /\ r.upc \in {"submit", "collect", "done"}

\* a unit that went through both fetches and has a download running
C34_Witness ==
    \E u \in Identifiers :
        /\ unit[u].upc = "collect"
        /\ unit[u].fetched
        /\ unit[u].container
        /\ unit[u].running # {}
        /\ Len(unit[u].started) = 2

-----------------------------------------------------------------------------
(* Claims on the fetchers against an endpoint that answers by cursor *)

\* the whole collection: the pages from cursor c to the end
RECURSIVE Whole(_, _)
Whole(c, fuel) ==
    feed[c].batch \o (IF feed[c].next = NoneCursor \/ fuel = 0 THEN <<>>
                      ELSE Whole(feed[c].next, fuel - 1))

Collection == Whole(NoneCursor, FeedRounds)

\* C35: on an endpoint that serves a finite collection newest first, with
\* every createdAt parseable and every request answered, get_images returns
\* exactly the records of the whole collection that are not older than
\* after_date and pass the ownership filter, in the order they are served.
C35_EarlyStopLosesNothing ==
    (fetcher = "get_images" /\ feed # NoFeed /\ fpc = "done")
        => returned = SelectSeq(Collection, PassesImage)

\* the date check ended the loop with a non-empty page left unrequested,
\* and something was returned
C35_Witness ==
    /\ fetcher = "get_images"
    /\ feed # NoFeed
    /\ fpc = "done"
    /\ after_date # NoDate
    /\ cursor # NoneCursor
    /\ feed[cursor].batch # <<>>
    /\ returned # <<>>
    /\ Len(Collection) > Len(returned) + 1

\* the cursor of the request number k + 1 of a call on the endpoint feed
RECURSIVE CursorAt(_)
CursorAt(k) == IF k = 0 THEN NoneCursor ELSE feed[CursorAt(k - 1)].next

\* C36: get_posts and get_collection_images, on an endpoint whose pages are
\* never empty and whose cursors come from a finite set, never go on to
\* request a cursor they have requested before in the same call (on an
\* endpoint that answers by cursor a second request of a cursor starts the
\* same rounds again, without end).
C36_CursorNeverAgain ==
    (fetcher \in {"get_posts", "get_collection_images"}
        /\ feed # NoFeed /\ fpc = "request")
        => \A k \in 0 .. pages - 1 : CursorAt(k) # cursor

-----------------------------------------------------------------------------
(* Claim on the directory after a successful download_image *)

\* C37: when download_image has returned success, the target file is the
\* only file of the directory that matches *_<id>.* for the item's id.
C37_OnlyTargetLeft ==
    (Returned /\ result = "True") => SameId(dir) = {Target}

-----------------------------------------------------------------------------
(* Claims on the deleter *)

\* the records of the user's whole collection
Catalogue == {Collection[i] : i \in 1 .. Len(Collection)}

\* createdAt is there, was parsed and is strictly before before_date
StrictlyOlder(rec) ==
    /\ rec.createdAt \notin {NoDate, BadDate, NaiveDate}
    /\ rec.createdAt < before_date

\* the directory when process_user_deletion started
Local0 == IF has_dir THEN LocalFiles ELSE {}

\* C38: process_user_deletion removes a file only if its name matches
\* *_<id>.* for the id of an item whose createdAt was parsed and is strictly
\* older than before_date; the files of an id that no such item has (the
\* item is newer, or its createdAt is missing or unparseable) stay, and so
\* does every file when the scan returned no item.
C38_DeleterSafety ==
    fetcher = "get_images_metadata" =>
        /\ \A f \in Local0 \ local :
               \E r \in Catalogue : StrictlyOlder(r) /\ GlobMatches(f, r.id)
        /\ \A id \in DelIds :
               (~\E r \in Catalogue : StrictlyOlder(r) /\ r.id = id)
                   => FilesOf(id) \cap Local0 \subseteq local
        /\ xpc = "nothing" => local = Local0

\* the deletion loop has ended: the files of the old item 42 are gone, those
\* of item 142, whose createdAt is on the bound, missing or unparseable, are
\* all there
C38_Witness ==
    /\ fetcher = "get_images_metadata"
    /\ xpc = "finished"
    /\ \E r \in Catalogue : r.id = <<"4", "2">> /\ StrictlyOlder(r)
    /\ \E r \in Catalogue : r.id = <<"1", "4", "2">> /\ ~StrictlyOlder(r)
    /\ local = FilesOf(<<"1", "4", "2">>)
    /\ Local0 \ local = FilesOf(<<"4", "2">>)

\* the records of the first k pages of the collection
RECURSIVE Upto(_, _)
Upto(c, k) ==
    IF k = 0 THEN <<>>
    ELSE feed[c].batch \o (IF feed[c].next = NoneCursor THEN <<>>
                           ELSE Upto(feed[c].next, k - 1))

\* C39: get_images_metadata, when a page request was answered with a 5xx
\* status on all max_retries attempts, has returned the old items of the
\* pages parsed before, each once, and has not run the body of the loop on
\* an earlier response again.
C39_FetchFailureReturns ==
    (fetcher = "get_images_metadata" /\ n5xx = max_retries)
        => /\ fpc = "done"
           /\ returned = SelectSeq(Upto(NoneCursor, pages), StrictlyOlder)
           /\ rounds = pages

-----------------------------------------------------------------------------
(* Claim on process_collection *)

\* C40: process_collection gives a collection up as not found or deleted
\* only when collection.getById answered without a collection object; a
\* collection that exists, whatever its name and whatever error the lookup
\* hits, goes on to the fetchers with a non-empty directory name.
C40_SkipOnlyWhenGone ==
    /\ cpc = "not_found" => lookup.kind = "gone"
    /\ cpc = "fetch" => collection_name \notin {NoString, NoneName}

=============================================================================
